---- MODULE Spec2Model ----
(***************************************************************************)
(* Paged attention for HPU: the block-batch remapper, the block softmax,   *)
(* flat paged (decode) attention, prompt attention and the forward calls   *)
(* of HPUAttentionImpl / HPUMLAImpl that write the block cache and attend. *)
(*                                                                         *)
(* Tensors are functions over 0-based index ranges, first dimension        *)
(* outermost; a row is the flattened rest, as in tensor.view(shape[0],-1). *)
(* Tensor elements are exact rationals <<n, d>> (d > 0, lowest terms)      *)
(* extended with the IEEE specials NaN, +inf and -inf.                     *)
(***************************************************************************)
EXTENDS Integers, Sequences, FiniteSets, TLC

VARIABLES
    fn,     \* name of the tensor function applied last ("none" before)
    args,   \* inputs of the tensor function under analysis
    ret,    \* its result
    prev,   \* the result of the application before the inputs were varied
    mark,   \* how the inputs were varied (the block touched, the permutation)
    layer,     \* the attention implementation constructed
    kv_cache,  \* the block cache of the layer: key store and value store
    frame,     \* the forward call in progress: its arguments, locals and pc
    events,    \* cache accesses of the call in progress, in program order
    output,    \* what the last forward call returned or raised
    calls,     \* forward calls made so far
    lora_mask,    \* LoraMask.lora_mask, the class attribute
    environ,      \* os.environ: the variables that are set, with their values
    vllm_config   \* the VllmConfig handed to check_and_update_config

opvars   == <<fn, args, ret, prev, mark>>
fwdvars  == <<layer, kv_cache, frame, events, output, calls>>
procvars == <<lora_mask, environ, vllm_config>>
vars     == <<fn, args, ret, prev, mark, layer, kv_cache, frame, events, output,
              calls, lora_mask, environ, vllm_config>>

\* the forward machine is not running in the analyses of the tensor functions
FwdParked ==
    /\ layer = <<>> /\ kv_cache = <<>> /\ frame = <<>>
    /\ events = <<>> /\ output = <<>> /\ calls = 0

\* the process-wide state plays no part in the analyses of the attention code
ProcParked ==
    /\ lora_mask = <<>> /\ environ = <<>> /\ vllm_config = <<>>

(***************************************************************************)
(* Bounds of the analysis.                                                 *)
(***************************************************************************)
MaxBatch  == 2      \* batch elements (sequences) of one call
MaxBlocks == 3      \* rows of block_list / block_mapping
MaxVal    == 1      \* magnitude of the integer tensor entries drawn
HeadSize  == 1      \* head_size
BlockSize == 2      \* slots of one cache block
MaxShift  == 4      \* exp_ underflows to 0 below -MaxShift

(***************************************************************************)
(* Element arithmetic.                                                     *)
(***************************************************************************)
NaN    == <<0, 0>>
PosInf == <<1, 0>>
NegInf == <<-1, 0>>
Zero   == <<0, 1>>
One    == <<1, 1>>

Abs(n) == IF n < 0 THEN -n ELSE n
Sgn(n) == IF n < 0 THEN -1 ELSE IF n = 0 THEN 0 ELSE 1

RECURSIVE GCD(_, _)
GCD(a, b) == IF b = 0 THEN a ELSE GCD(b, a % b)

RECURSIVE Pow2(_)
Pow2(k) == IF k <= 0 THEN 1 ELSE 2 * Pow2(k - 1)

Norm(n, d) == LET g == GCD(Abs(n), d) IN <<n \div g, d \div g>>
Num(i)   == <<i, 1>>
IsNaN(x) == x = NaN
IsFin(x) == x[2] # 0

fneg(a) == <<-a[1], a[2]>>

fadd(a, b) ==
    IF IsNaN(a) \/ IsNaN(b) THEN NaN
    ELSE IF ~IsFin(a) THEN (IF ~IsFin(b) /\ a # b THEN NaN ELSE a)
    ELSE IF ~IsFin(b) THEN b
    ELSE Norm(a[1] * b[2] + b[1] * a[2], a[2] * b[2])

fsub(a, b) == fadd(a, fneg(b))

fmul(a, b) ==
    IF IsNaN(a) \/ IsNaN(b) THEN NaN
    ELSE IF ~IsFin(a) \/ ~IsFin(b)
         THEN (IF a[1] = 0 \/ b[1] = 0 THEN NaN
               ELSE <<Sgn(a[1]) * Sgn(b[1]), 0>>)
    ELSE Norm(a[1] * b[1], a[2] * b[2])

fdiv(a, b) ==
    IF IsNaN(a) \/ IsNaN(b) THEN NaN
    ELSE IF ~IsFin(a) THEN (IF ~IsFin(b) THEN NaN
                            ELSE <<a[1] * (IF b[1] < 0 THEN -1 ELSE 1), 0>>)
    ELSE IF ~IsFin(b) THEN Zero
    ELSE IF b[1] = 0 THEN (IF a[1] = 0 THEN NaN ELSE <<Sgn(a[1]), 0>>)
    ELSE Norm(a[1] * b[2] * Sgn(b[1]), a[2] * Abs(b[1]))

\* a < b on non-NaN elements
fless(a, b) ==
    IF ~IsFin(a) THEN a = NegInf /\ b # NegInf
    ELSE IF ~IsFin(b) THEN b = PosInf
    ELSE a[1] * b[2] < b[1] * a[2]

\* torch max/amax propagate NaN
fmax(a, b) ==
    IF IsNaN(a) \/ IsNaN(b) THEN NaN ELSE IF fless(a, b) THEN b ELSE a

\* exp on the integer scores the analysis draws, to base 2: exp_(0) = 1,
\* exp_(x + y) = exp_(x) * exp_(y), exp_(-inf) = 0, exp_(NaN) = NaN, and a
\* finite range below which the result underflows to 0.
fexp(x) ==
    IF IsNaN(x) THEN NaN
    ELSE IF x = NegInf THEN Zero
    ELSE IF x = PosInf THEN PosInf
    ELSE LET k == x[1] \div x[2] IN
         IF k < -MaxShift THEN Zero
         ELSE IF k >= 0 THEN <<Pow2(k), 1>>
         ELSE <<1, Pow2(-k)>>

(***************************************************************************)
(* Tensor helpers.                                                         *)
(***************************************************************************)
Size(t) == Cardinality(DOMAIN t)

\* f tabulated: every element computed once
Tab(f) == f @@ <<>>
Rng(n)  == 0 .. (n - 1)

RECURSIVE SumTo(_, _)
\* f[0] + ... + f[n-1], accumulated left to right
SumTo(f, n) == IF n = 0 THEN Zero ELSE fadd(SumTo(f, n - 1), f[n - 1])

RECURSIVE MaxTo(_, _)
\* max of f[0..n-1], n >= 1
MaxTo(f, n) == IF n = 1 THEN f[0] ELSE fmax(MaxTo(f, n - 1), f[n - 1])

\* a @ b for a: (n x k), b: (k x m)
matmul(a, b) ==
    Tab([i \in DOMAIN a |->
        Tab([j \in DOMAIN b[0] |->
            SumTo([k \in DOMAIN b |-> fmul(a[i][k], b[k][j])], Size(b))])])

\* a.t() for a: (n x m), n >= 1
transpose(a) == Tab([j \in DOMAIN a[0] |-> Tab([i \in DOMAIN a |-> a[i][j]])])

(***************************************************************************)
(* Block-batch remapper.                                                   *)
(***************************************************************************)
\* every block row filled with the row of batch element 0
batch2block_first(tensor, block_mapping) ==
    Tab([b \in DOMAIN block_mapping |-> tensor[0]])

batch2block(tensor, block_mapping) == matmul(block_mapping, tensor)

\* the fold replaced by a gather of one owned block row per batch element
block2batch_gather(tensor, block_mapping) ==
    [e \in DOMAIN block_mapping[0] |->
        [j \in DOMAIN tensor[0] |->
            IF \E b \in DOMAIN tensor : block_mapping[b][e] = One
            THEN tensor[CHOOSE b \in DOMAIN tensor : block_mapping[b][e] = One][j]
            ELSE Zero]]

block2batch(tensor, block_mapping) == matmul(transpose(block_mapping), tensor)

\* the mapping matrix of an owner assignment: row b is one-hot at owner[b]
OneHot(owner, batch) ==
    [b \in DOMAIN owner |-> [e \in Rng(batch) |-> IF owner[b] = e THEN One ELSE Zero]]

\* number of blocks the mapping assigns to batch element e
Owned(block_mapping, e) == {b \in DOMAIN block_mapping : block_mapping[b][e] = One}

IntRows(rows, cols) == [Rng(rows) -> [Rng(cols) -> {Num(v) : v \in (-1) .. MaxVal}]]

(***************************************************************************)
(* Remapper analysis: draw x and M, apply batch2block then block2batch.    *)
(***************************************************************************)
RemapInit ==
    /\ FwdParked
    /\ ProcParked
    /\ fn = "none"
    /\ ret = <<>>
    /\ prev = <<>>
    /\ mark = <<>>
    /\ \E batch \in 1 .. MaxBatch, nb \in 1 .. MaxBlocks :
         \E owner \in [Rng(nb) -> Rng(batch)], x \in IntRows(batch, HeadSize) :
            args = [x |-> x, block_mapping |-> OneHot(owner, batch)]

ApplyBatch2Block ==
    /\ fn = "none"
    /\ fn' = "batch2block"
    /\ ret' = batch2block(args.x, args.block_mapping)
    /\ UNCHANGED <<args, prev, mark>>
    /\ UNCHANGED <<fwdvars, procvars>>

ApplyBlock2Batch ==
    /\ fn = "batch2block"
    /\ fn' = "block2batch"
    /\ ret' = block2batch(ret, args.block_mapping)
    /\ UNCHANGED <<args, prev, mark>>
    /\ UNCHANGED <<fwdvars, procvars>>

\* block rows that differ within one owner: the row of the owner plus the
\* block number
BlockRows(x, block_mapping) ==
    Tab([b \in DOMAIN block_mapping |->
        LET e == CHOOSE e \in DOMAIN x : block_mapping[b][e] = One
        IN  Tab([j \in DOMAIN x[e] |-> fadd(x[e][j], Num(b))])])

\* block2batch applied to block rows of its own
ApplyBlock2BatchRows ==
    /\ fn = "none"
    /\ fn' = "block2batch_rows"
    /\ prev' = BlockRows(args.x, args.block_mapping)
    /\ ret' = block2batch(prev', args.block_mapping)
    /\ UNCHANGED <<args, mark>>
    /\ UNCHANGED <<fwdvars, procvars>>

RemapNext == ApplyBatch2Block \/ ApplyBlock2Batch \/ ApplyBlock2BatchRows

SpecRemap == RemapInit /\ [][RemapNext]_vars

\* C2 as claimed: block2batch(batch2block(x, M), M) = x for every one-hot M,
\* whatever number of blocks each batch element owns (stated here for the
\* batch elements that own at least one block).
C2_RoundTripIsIdentity ==
    fn = "block2batch" =>
        \A e \in DOMAIN args.x :
            Owned(args.block_mapping, e) # {} => ret[e] = args.x[e]

\* C2 amended: block2batch(batch2block(x, M), M) has in row e the row x[e]
\* multiplied by the number of blocks e owns; it is x[e] exactly for the batch
\* elements that own one block.
C2_RoundTripScalesByOwned ==
    fn = "block2batch" =>
        /\ DOMAIN ret = DOMAIN args.x
        /\ \A e \in DOMAIN args.x : \A j \in DOMAIN args.x[e] :
              ret[e][j] = fmul(Num(Cardinality(Owned(args.block_mapping, e))),
                               args.x[e][j])
        /\ \A e \in DOMAIN args.x :
              Cardinality(Owned(args.block_mapping, e)) = 1 => ret[e] = args.x[e]

\* a batch element owning two blocks with a nonzero row has been folded back
C2_Witness ==
    /\ fn = "block2batch"
    /\ \E e \in DOMAIN args.x :
          /\ Cardinality(Owned(args.block_mapping, e)) = 2
          /\ args.x[e][0] # Zero
          /\ ret[e][0] # args.x[e][0]
    /\ \E e \in DOMAIN args.x : Cardinality(Owned(args.block_mapping, e)) = 1

(***************************************************************************)
(* Block cache store: the gather half of VLLMKVCache.                      *)
(***************************************************************************)
\* read(cache, block_list): the blocks named in block_list, in list order
fetch_from_cache(cache, blocks) == Tab([i \in DOMAIN blocks |-> cache[blocks[i]]])

(***************************************************************************)
(* Block softmax.  attn has one row per block; attn[b][h][s] is the score  *)
(* of head h (all middle dimensions flattened) for slot s of block b.      *)
(***************************************************************************)
\* sums.add_(1.0e-12): the epsilon, on the scale where exp_ underflows below
\* 2^-MaxShift
Epsilon == <<1, 8>>

\* attn.amax(tail_dims).amax(): the maximum over the whole tensor
global_max(attn) ==
    MaxTo([b \in DOMAIN attn |->
             MaxTo([h \in DOMAIN attn[b] |->
                      MaxTo(attn[b][h], Size(attn[b][h]))], Size(attn[b]))],
          Size(attn))

\* attn.sub_(attn_max); attn.exp_()
shifted_exp(attn) ==
    LET attn_max == global_max(attn) IN
    Tab([b \in DOMAIN attn |-> Tab([h \in DOMAIN attn[b] |->
        Tab([s \in DOMAIN attn[b][h] |-> fexp(fsub(attn[b][h][s], attn_max))])])])

\* the divisor with the fold over the blocks of a batch element left out
block_softmax_sums_perblock(batch_size, attn, block_mapping) ==
    LET e_attn == shifted_exp(attn)
        sums   == Tab([b \in DOMAIN attn |-> Tab([h \in DOMAIN attn[b] |->
                      SumTo(e_attn[b][h], Size(e_attn[b][h]))])])
    IN  Tab([b \in DOMAIN sums |->
            Tab([h \in DOMAIN sums[b] |-> fadd(sums[b][h], Epsilon)])])

\* the tensor `sums` by which attn is divided, shape (blocks, heads)
block_softmax_sums(batch_size, attn, block_mapping) ==
    LET e_attn == shifted_exp(attn)
        sums   == Tab([b \in DOMAIN attn |-> Tab([h \in DOMAIN attn[b] |->
                      SumTo(e_attn[b][h], Size(e_attn[b][h]))])])
        folded == batch2block(block2batch(sums, block_mapping), block_mapping)
    IN  Tab([b \in DOMAIN folded |-> Tab([h \in DOMAIN folded[b] |->
            fadd(folded[b][h], Epsilon)])])

block_softmax(batch_size, attn, block_mapping) ==
    LET e_attn == shifted_exp(attn)
        sums   == block_softmax_sums(batch_size, attn, block_mapping)
    IN  Tab([b \in DOMAIN attn |-> Tab([h \in DOMAIN attn[b] |->
            Tab([s \in DOMAIN attn[b][h] |-> fdiv(e_attn[b][h][s], sums[b][h])])])])

(***************************************************************************)
(* Flat paged attention.                                                   *)
(*   query       (batch, q_heads * head_size)                              *)
(*   key_cache   (num_blocks, block_size, kv_heads * head_size)            *)
(*   block_list  (blocks)          block_mapping (blocks, batch)           *)
(*   block_bias  (blocks, block_size)                                      *)
(***************************************************************************)
\* heads interleaved instead of grouped: unflatten(1, (-1, kv_heads))
kv_head_of_interleaved(h, q_heads, kv_heads) ==
    IF kv_heads # q_heads THEN h % kv_heads ELSE h

\* the kv head that query head h meets after query.unflatten(1, (kv_heads, -1))
\* and key.unflatten(1, (kv_heads, 1)); h itself when the head counts agree
kv_head_of(h, q_heads, kv_heads) ==
    IF kv_heads # q_heads THEN h \div (q_heads \div kv_heads) ELSE h

\* sum over d of a[ha * head_size + d] * b[hb * head_size + d]
head_dot(a, ha, b, hb) ==
    SumTo([d \in Rng(HeadSize) |->
              fmul(a[ha * HeadSize + d], b[hb * HeadSize + d])], HeadSize)

\* the scores handed to block_softmax, with block_bias looked up by the
\* cache block number instead of the position in block_list
flat_pa_scores_bias_by_block(query, key_cache, block_list, block_mapping, block_bias, scale) ==
    LET q_heads  == Size(query[0]) \div HeadSize
        kv_heads == Size(key_cache[0][0]) \div HeadSize
        scaled   == Tab([e \in DOMAIN query |->
                        Tab([i \in DOMAIN query[e] |-> fmul(scale, query[e][i])])])
        queryb   == batch2block(scaled, block_mapping)
        key      == fetch_from_cache(key_cache, block_list)
    IN  Tab([b \in DOMAIN key |-> Tab([h \in Rng(q_heads) |->
            Tab([s \in DOMAIN key[b] |->
                fadd(head_dot(queryb[b], h, key[b][s],
                              kv_head_of(h, q_heads, kv_heads)),
                     block_bias[block_list[b]][s])])])])

\* matmul_qk_op(query, key) + block_bias: the scores handed to block_softmax,
\* shape (blocks, q_heads, block_size)
flat_pa_scores(query, key_cache, block_list, block_mapping, block_bias, scale) ==
    LET q_heads  == Size(query[0]) \div HeadSize
        kv_heads == Size(key_cache[0][0]) \div HeadSize
        scaled   == Tab([e \in DOMAIN query |->
                        Tab([i \in DOMAIN query[e] |-> fmul(scale, query[e][i])])])
        queryb   == batch2block(scaled, block_mapping)
        key      == fetch_from_cache(key_cache, block_list)
    IN  Tab([b \in DOMAIN key |-> Tab([h \in Rng(q_heads) |->
            Tab([s \in DOMAIN key[b] |->
                fadd(head_dot(queryb[b], h, key[b][s],
                              kv_head_of(h, q_heads, kv_heads)),
                     block_bias[b][s])])])])

flat_pa(query, key_cache, value_cache, block_list, block_mapping, block_bias, scale) ==
    LET batch_size == Size(query)
        q_heads    == Size(query[0]) \div HeadSize
        kv_heads   == Size(key_cache[0][0]) \div HeadSize
        value      == fetch_from_cache(value_cache, block_list)
        scores     == flat_pa_scores(query, key_cache, block_list, block_mapping,
                                     block_bias, scale)
        attn       == block_softmax(batch_size, scores, block_mapping)
        av         == Tab([b \in DOMAIN value |-> Tab([i \in Rng(q_heads * HeadSize) |->
                          SumTo([s \in DOMAIN value[b] |->
                                    fmul(attn[b][i \div HeadSize][s],
                                         value[b][s][kv_head_of(i \div HeadSize,
                                                 q_heads, kv_heads) * HeadSize
                                                 + (i % HeadSize)])],
                                Size(value[b]))])])
    IN  block2batch(av, block_mapping)

Scores(a) == flat_pa_scores(a.query, a.key_cache, a.block_list, a.block_mapping,
                            a.block_bias, a.scale)

FlatPA(a) == flat_pa(a.query, a.key_cache, a.value_cache, a.block_list,
                     a.block_mapping, a.block_bias, a.scale)

(***************************************************************************)
(* Decode attention analysis: draw a batch, its blocks and their contents, *)
(* run flat_pa, then vary the inputs and run it again.                     *)
(***************************************************************************)
HeadRow(v) == [i \in Rng(HeadSize) |-> Num(v)]

\* block_bias of a block with `usage` valid slots: the rest is masked
UsageBias(usage) == [s \in Rng(BlockSize) |-> IF s < usage THEN Zero ELSE NegInf]

PAInit ==
    /\ FwdParked
    /\ ProcParked
    /\ fn = "none"
    /\ ret = <<>>
    /\ prev = <<>>
    /\ mark = <<>>
    /\ \E batch \in 1 .. MaxBatch, nb \in 1 .. MaxBlocks :
         \E owner \in [Rng(nb) -> Rng(batch)],
            usage \in [Rng(nb) -> 0 .. BlockSize],
            level \in [Rng(nb) -> 0 .. MaxVal] :
            args = [query |-> [e \in Rng(batch) |-> HeadRow(e + 1)],
                    key_cache |-> [blk \in Rng(nb) |-> [s \in Rng(BlockSize) |->
                                      HeadRow(level[blk] * (s + 1))]],
                    value_cache |-> [blk \in Rng(nb) |-> [s \in Rng(BlockSize) |->
                                      HeadRow(1 + blk * BlockSize + s)]],
                    block_list |-> [i \in Rng(nb) |-> i],
                    block_mapping |-> OneHot(owner, batch),
                    block_bias |-> [b \in Rng(nb) |-> UsageBias(usage[b])],
                    scale |-> One]

ApplyFlatPA ==
    /\ fn = "none"
    /\ fn' = "flat_pa"
    /\ ret' = FlatPA(args)
    /\ UNCHANGED <<args, prev, mark>>
    /\ UNCHANGED <<fwdvars, procvars>>

Perms(n) == {p \in [Rng(n) -> Rng(n)] : \A i, j \in Rng(n) : p[i] = p[j] => i = j}

\* reorder block_list, with block_mapping and block_bias reordered alike
PermuteBlocks ==
    /\ fn = "flat_pa"
    /\ \E p \in Perms(Size(args.block_list)) :
         /\ p # [i \in DOMAIN p |-> i]
         /\ args' = [args EXCEPT
                !.block_list = [i \in DOMAIN p |-> args.block_list[p[i]]],
                !.block_mapping = [i \in DOMAIN p |-> args.block_mapping[p[i]]],
                !.block_bias = [i \in DOMAIN p |-> args.block_bias[p[i]]]]
         /\ mark' = p
    /\ fn' = "permuted"
    /\ prev' = ret
    /\ ret' = FlatPA(args')
    /\ UNCHANGED <<fwdvars, procvars>>

\* overwrite one cached key or value row, then attend again; the new row is
\* the old one plus 1, or a row that overflowed to +inf
PerturbCache ==
    /\ fn = "flat_pa"
    /\ \E blk \in DOMAIN args.key_cache, s \in Rng(BlockSize),
          which \in {"key", "value"}, by \in {One, PosInf} :
         /\ args' = IF which = "key"
                    THEN [args EXCEPT !.key_cache[blk][s] =
                            [i \in DOMAIN @ |-> fadd(@[i], by)]]
                    ELSE [args EXCEPT !.value_cache[blk][s] =
                            [i \in DOMAIN @ |-> fadd(@[i], by)]]
         /\ mark' = [blk |-> blk, slot |-> s, which |-> which, by |-> by]
    /\ fn' = "perturbed"
    /\ prev' = ret
    /\ ret' = FlatPA(args')
    /\ UNCHANGED <<fwdvars, procvars>>

PANext == ApplyFlatPA \/ PermuteBlocks \/ PerturbCache

SpecPA == PAInit /\ [][PANext]_vars

RECURSIVE SumOver(_, _)
\* the sum of f[x] over the x of the finite set S
SumOver(S, f) ==
    IF S = {} THEN Zero
    ELSE LET x == CHOOSE y \in S : TRUE IN fadd(f[x], SumOver(S \ {x}, f))

\* the exponentiated, max-shifted scores of batch element e, head h, summed
\* over the slots of the blocks that block_mapping assigns to e
OwnedExpSum(a, e, h) ==
    LET ex == shifted_exp(Scores(a)) IN
    SumOver(Owned(a.block_mapping, e),
            [b \in DOMAIN ex |-> SumTo(ex[b][h], Size(ex[b][h]))])

\* C3: in block_softmax the divisor of every block b owned by batch element e
\* is the sum of the exponentiated scores over exactly the blocks of e, plus
\* the epsilon; the weights of e over all its blocks, times that divisor,
\* give back that sum (they total 1 up to the epsilon).
C3_DivisorPerBatchElement ==
    fn = "flat_pa" =>
        LET sc   == Scores(args)
            sums == block_softmax_sums(Size(args.query), sc, args.block_mapping)
            w    == block_softmax(Size(args.query), sc, args.block_mapping)
        IN  \A e \in DOMAIN args.query : \A h \in DOMAIN sc[0] :
              LET total == OwnedExpSum(args, e, h) IN
              /\ \A b \in Owned(args.block_mapping, e) :
                    sums[b][h] = fadd(total, Epsilon)
              /\ fmul(SumOver(Owned(args.block_mapping, e),
                              [b \in DOMAIN w |-> SumTo(w[b][h], Size(w[b][h]))]),
                      fadd(total, Epsilon)) = total

\* a batch element with two blocks next to one with a single block, both
\* with a finite nonzero sum
C3_Witness ==
    /\ fn = "flat_pa"
    /\ \E e1, e2 \in DOMAIN args.query :
          /\ Cardinality(Owned(args.block_mapping, e1)) = 2
          /\ Cardinality(Owned(args.block_mapping, e2)) = 1
          /\ IsFin(OwnedExpSum(args, e1, 0)) /\ OwnedExpSum(args, e1, 0) # Zero
          /\ IsFin(OwnedExpSum(args, e2, 0)) /\ OwnedExpSum(args, e2, 0) # Zero
          /\ OwnedExpSum(args, e1, 0) # OwnedExpSum(args, e2, 0)
          /\ \E b \in Owned(args.block_mapping, e1) :
                LET ex == shifted_exp(Scores(args)) IN
                SumTo(ex[b][0], Size(ex[b][0])) # OwnedExpSum(args, e1, 0)

\* the row of block_list that holds cache block blk
RowOfBlock(a, blk) == CHOOSE i \in DOMAIN a.block_list : a.block_list[i] = blk

\* C4: changing the cached key/value contents of a block owned by one
\* sequence leaves the decode output of every other sequence unchanged.
C4_NoCrossTalk ==
    fn = "perturbed" =>
        \A e \in DOMAIN ret :
            args.block_mapping[RowOfBlock(args, mark.blk)][e] = Zero
                => ret[e] = prev[e]

\* C5: flat_pa gives the same output for every ordering of block_list when
\* block_mapping and block_bias are reordered with it.
C5_BlockOrderInvariant ==
    fn = "permuted" => ret = prev

\* a reordering that moves a block of a two-block batch element, with a
\* nonzero output
C5_Witness ==
    /\ fn = "permuted"
    /\ \E e \in DOMAIN ret :
          /\ Cardinality(Owned(args.block_mapping, e)) = 2
          /\ IsFin(ret[e][0]) /\ ret[e][0] # Zero
    /\ \E i, j \in DOMAIN args.block_bias : args.block_bias[i] # args.block_bias[j]
    /\ \E i, j \in DOMAIN args.block_mapping :
          args.block_mapping[i] # args.block_mapping[j]

\* every score of batch element e is masked
AllMasked(a, e) ==
    /\ Owned(a.block_mapping, e) # {}
    /\ \A b \in Owned(a.block_mapping, e) : \A s \in DOMAIN a.block_bias[b] :
          a.block_bias[b][s] = NegInf

\* C7: a decode row whose scores are all masked yields an output row of
\* zeros, never NaN.
C7_MaskedRowIsZero ==
    fn = "flat_pa" =>
        \A e \in DOMAIN ret :
            AllMasked(args, e) => \A j \in DOMAIN ret[e] : ret[e][j] = Zero


(***************************************************************************)
(* Prompt attention.                                                       *)
(*   query   (batch, seq, q_heads * head_size)                             *)
(*   key     (batch, seq_kv, kv_heads * head_size), value alike            *)
(*   attn_bias  (batch, seq, seq_kv), broadcast over heads, or None        *)
(***************************************************************************)
None == <<>>

\* softmax_op(row, dim=-1): shift by the row maximum, exponentiate, normalise
softmax(row) ==
    LET m  == MaxTo(row, Size(row))
        ex == Tab([k \in DOMAIN row |-> fexp(fsub(row[k], m))])
        sm == SumTo(ex, Size(ex))
    IN  Tab([k \in DOMAIN row |-> fdiv(ex[k], sm)])

\* the causal mask the fused kernel applies itself (is_causal = True)
CausalBias(seq, seq_kv) ==
    Tab([tq \in Rng(seq) |-> Tab([tk \in Rng(seq_kv) |->
        IF tk <= tq THEN Zero ELSE NegInf])])

\* the two-matmul-plus-softmax branch of prompt_attention for one bias
reference_attention(query, key, value, bias, scale) ==
    LET q_heads  == Size(query[0][0]) \div HeadSize
        kv_heads == Size(key[0][0]) \div HeadSize
    IN  Tab([b \in DOMAIN query |-> Tab([tq \in DOMAIN query[b] |->
          LET w == Tab([h \in Rng(q_heads) |->
                     softmax(Tab([tk \in DOMAIN key[b] |->
                        LET qk == SumTo([d \in Rng(HeadSize) |->
                                     fmul(fmul(query[b][tq][h * HeadSize + d], scale),
                                          key[b][tk][kv_head_of(h, q_heads, kv_heads)
                                                     * HeadSize + d])], HeadSize)
                        IN  IF bias = None THEN qk
                            ELSE fadd(qk, bias[b][tq][tk])]))])
          IN  Tab([i \in Rng(q_heads * HeadSize) |->
                 SumTo([tk \in DOMAIN key[b] |->
                          fmul(w[i \div HeadSize][tk],
                               value[b][tk][kv_head_of(i \div HeadSize, q_heads,
                                       kv_heads) * HeadSize + (i % HeadSize)])],
                       Size(key[b]))])])])

\* FusedSDPA.apply(query, key, value, None, 0.0, True, scale, ...): causal
\* attention computed by the fused kernel
FusedSDPA_apply(query, key, value, scale) ==
    reference_attention(query, key, value,
        Tab([b \in DOMAIN query |-> CausalBias(Size(query[b]), Size(key[b]))]),
        scale)

\* fused: HPUFusedSDPA is not None
prompt_attention(query, key, value, attn_bias, scale, fused) ==
    IF attn_bias # None \/ ~fused
    THEN reference_attention(query, key, value, attn_bias, scale)
    ELSE FusedSDPA_apply(query, key, value, scale)

(***************************************************************************)
(* Grouped-query analysis: attend with kv_heads < q_heads, then with every *)
(* kv head repeated q_heads / kv_heads times and equal head counts.        *)
(***************************************************************************)
MaxKvHeads == 2     \* kv heads
MaxGroup   == 2     \* query heads per kv head

\* rows of (heads * head_size) entries: head h holds base + h in every entry
HeadsRow(heads, base) == Tab([i \in Rng(heads * HeadSize) |-> Num(base + (i \div HeadSize))])

\* torch.repeat_interleave over the head axis: head h is kv head h div g
RepeatKV(row, g) ==
    LET kv_heads == Size(row) \div HeadSize IN
    Tab([i \in Rng(kv_heads * g * HeadSize) |->
        row[((i \div HeadSize) \div g) * HeadSize + (i % HeadSize)]])

GQAInit ==
    /\ FwdParked
    /\ ProcParked
    /\ fn = "none"
    /\ ret = <<>>
    /\ prev = <<>>
    /\ mark = <<>>
    /\ \E kind \in {"flat_pa", "prompt_attention"},
          batch \in 1 .. MaxBatch, kv_heads \in 1 .. MaxKvHeads,
          g \in 1 .. MaxGroup, qbase \in 0 .. MaxVal, kbase \in 0 .. MaxVal :
         args = IF kind = "flat_pa"
                THEN [kind |-> kind, g |-> g,
                      query |-> Tab([e \in Rng(batch) |->
                                   HeadsRow(kv_heads * g, qbase + e)]),
                      key_cache |-> Tab([blk \in Rng(MaxBlocks) |->
                                   Tab([s \in Rng(BlockSize) |->
                                       HeadsRow(kv_heads, kbase + s)])]),
                      value_cache |-> Tab([blk \in Rng(MaxBlocks) |->
                                   Tab([s \in Rng(BlockSize) |->
                                       HeadsRow(kv_heads, 1 + blk + 2 * s)])]),
                      block_list |-> Tab([i \in Rng(MaxBlocks) |-> i]),
                      block_mapping |-> OneHot([i \in Rng(MaxBlocks) |-> i % batch],
                                               batch),
                      block_bias |-> Tab([i \in Rng(MaxBlocks) |->
                                   UsageBias(1 + (i % BlockSize))]),
                      scale |-> One]
                ELSE [kind |-> kind, g |-> g,
                      query |-> Tab([b \in Rng(batch) |-> Tab([t \in Rng(BlockSize) |->
                                   HeadsRow(kv_heads * g, qbase + b + t)])]),
                      key |-> Tab([b \in Rng(batch) |-> Tab([t \in Rng(BlockSize) |->
                                   HeadsRow(kv_heads, kbase + t)])]),
                      value |-> Tab([b \in Rng(batch) |-> Tab([t \in Rng(BlockSize) |->
                                   HeadsRow(kv_heads, 1 + b + 2 * t)])]),
                      attn_bias |-> Tab([b \in Rng(batch) |->
                                   CausalBias(BlockSize, BlockSize)]),
                      scale |-> One]

\* attention with the head counts as given
Attend(a) ==
    IF a.kind = "flat_pa" THEN FlatPA(a)
    ELSE prompt_attention(a.query, a.key, a.value, a.attn_bias, a.scale, FALSE)

\* the inputs with each kv head repeated g times
Repeated(a) ==
    IF a.kind = "flat_pa"
    THEN [a EXCEPT
            !.key_cache = Tab([blk \in DOMAIN @ |-> Tab([s \in DOMAIN @[blk] |->
                              RepeatKV(@[blk][s], a.g)])]),
            !.value_cache = Tab([blk \in DOMAIN @ |-> Tab([s \in DOMAIN @[blk] |->
                              RepeatKV(@[blk][s], a.g)])])]
    ELSE [a EXCEPT
            !.key = Tab([b \in DOMAIN @ |-> Tab([t \in DOMAIN @[b] |->
                              RepeatKV(@[b][t], a.g)])]),
            !.value = Tab([b \in DOMAIN @ |-> Tab([t \in DOMAIN @[b] |->
                              RepeatKV(@[b][t], a.g)])])]

ApplyGrouped ==
    /\ fn = "none"
    /\ fn' = "grouped"
    /\ ret' = Attend(args)
    /\ UNCHANGED <<args, prev, mark>>
    /\ UNCHANGED <<fwdvars, procvars>>

ApplyRepeated ==
    /\ fn = "grouped"
    /\ fn' = "repeated"
    /\ prev' = ret
    /\ ret' = Attend(Repeated(args))
    /\ UNCHANGED <<args, mark>>
    /\ UNCHANGED <<fwdvars, procvars>>

GQANext == ApplyGrouped \/ ApplyRepeated

SpecGQA == GQAInit /\ [][GQANext]_vars

\* C8: with q_heads a multiple of kv_heads, flat_pa and prompt_attention give
\* the output of attention with equal head counts over the kv heads repeated
\* q_heads / kv_heads times each, query head h meeting kv head
\* h div (q_heads / kv_heads).
C8_GroupedEqualsRepeated ==
    fn = "repeated" => ret = prev

\* one of the operators has attended with two kv heads of two query heads each,
\* and the kv heads differ
C8_Witness ==
    /\ fn = "repeated"
    /\ args.g = 2
    /\ Size(args.query[0]) > 0
    /\ IF args.kind = "flat_pa"
       THEN /\ Size(args.key_cache[0][0]) = 2 * HeadSize
            /\ Size(args.query[0]) = 4 * HeadSize
            /\ ret[0][0] # ret[0][2 * HeadSize]
       ELSE /\ Size(args.key[0][0]) = 2 * HeadSize
            /\ Size(args.query[0][0]) = 4 * HeadSize
            /\ ret[0][1][0] # ret[0][1][2 * HeadSize]

(***************************************************************************)
(* Forward calls of one attention layer against its block cache.           *)
(*                                                                         *)
(* kv_cache is the pair of stores the layer owns, [k |-> ..., v |-> ...],  *)
(* each (num_blocks, block_size, row width).  A call is passed the pair or *)
(* None (the memory profiling run).  The locals key_cache / value_cache of *)
(* a call are "unbound", "None", or name the store they refer to.          *)
(***************************************************************************)
NumBlocks == 3      \* blocks of the cache pool
MaxCalls  == 2      \* forward calls of one behaviour

Layers ==
    { [cls |-> "HPUAttentionImpl", attn_type |-> "DECODER", alibi_slopes |-> None],
      [cls |-> "HPUAttentionImpl", attn_type |-> "DECODER", alibi_slopes |-> <<One>>],
      [cls |-> "HPUAttentionImpl", attn_type |-> "ENCODER_DECODER", alibi_slopes |-> None],
      [cls |-> "HPUMLAImpl", attn_type |-> "DECODER", alibi_slopes |-> None] }

\* entries of one cache row: heads * head_size, or kv_lora_rank + rope dim
RowWidth(l) == IF l.cls = "HPUMLAImpl" THEN 2 * HeadSize ELSE HeadSize

ZeroStore(width) ==
    Tab([blk \in Rng(NumBlocks) |-> Tab([s \in Rng(BlockSize) |->
        Tab([i \in Rng(width) |-> Zero])])])

Idle == [pc |-> 0]

\* self.rotary_emb(input_positions, q_pe, k_pe) on one k_pe row
rotary_emb(position, row) ==
    Tab([i \in DOMAIN row |-> fadd(row[i], Num(position + 1))])

\* torch.concat((a, b), dim=-1) of two rows
concat(a, b) ==
    Tab([i \in Rng(Size(a) + Size(b)) |-> IF i < Size(a) THEN a[i] ELSE b[i - Size(a)]])

\* n chunks taken with stride n: chunk i holds rows i, i + n, ...
unflatten0_strided(rows, n) ==
    LET c == Size(rows) \div n IN
    Tab([i \in Rng(n) |-> Tab([s \in Rng(c) |-> rows[s * n + i]])])

\* tensor.unflatten(0, (n, -1)): n chunks of equal length
unflatten0(rows, n) ==
    LET c == Size(rows) \div n IN
    Tab([i \in Rng(n) |-> Tab([s \in Rng(c) |-> rows[i * c + s]])])

\* tensor.view(-1, ...) of a (batch, seq, hidden) tensor: the rows in order
flatten01(t) ==
    LET c == Size(t[0]) IN
    Tab([r \in Rng(Size(t) * c) |-> t[r \div c][r % c]])

RECURSIVE write_in_order(_, _, _, _, _, _)
\* the scatter of VLLMKVCache taken one row after the other in `order`
\* (a later row overwrites an earlier one at the same slot); rows 1..k done
write_in_order(new_kv, cache, block_indices, block_offsets, order, k) ==
    IF k = 0 THEN cache
    ELSE LET before == write_in_order(new_kv, cache, block_indices,
                                      block_offsets, order, k - 1)
             i == order[k - 1]
         IN  IF block_offsets = None
             THEN [before EXCEPT ![block_indices[i]] = new_kv[i]]
             ELSE [before EXCEPT ![block_indices[i]][block_offsets[i]] = new_kv[i]]

\* write(new_kv, cache, block_indices, block_offsets): row i goes to
\* cache[block_indices[i]][block_offsets[i]] (to the whole block
\* cache[block_indices[i]] when there are no offsets)
cache_write(new_kv, cache, block_indices, block_offsets, order) ==
    write_in_order(new_kv, cache, block_indices, block_offsets, order, Size(new_kv))

\* the write fails when some block index is outside the pool
cache_write_raises(cache, block_indices) ==
    \E i \in DOMAIN block_indices : block_indices[i] \notin DOMAIN cache

\* HPUPagedAttention.split_kv_cache: the key store and the value store
split_kv_cache == [key_cache |-> "k", value_cache |-> "v"]

\* the call in progress is a cross-attention call
IsCross == layer.attn_type = "ENCODER_DECODER"
IsMLA   == layer.cls = "HPUMLAImpl"

\* the write guard with the test for an absent cache dropped
writes_cache_always(f) == TRUE

\* `if kv_cache is not None and isinstance(kv_cache, tuple)` of
\* HPUAttentionImpl, `if kv_cache is not None and len(kv_cache) == 2` of
\* HPUMLAImpl
writes_cache(f) == f.has_cache

\* the statements of a forward body with the attention moved in front of
\* the cache writes
forward_steps_attend_before_store(l) ==
    IF l.cls = "HPUMLAImpl" THEN <<"split", "attend", "store">>
    ELSE IF l.attn_type = "ENCODER_DECODER" THEN <<"split", "attend", "store">>
    ELSE <<"bind_none", "split", "attend", "store">>

\* the statements of the forward body in program order:
\*   bind_none  key_cache = None; value_cache = None
\*   split      the locals are bound to the stores of kv_cache
\*   store      the new rows are written into the cache
\*   attend     prompt attention or decode attention
forward_steps(l) ==
    IF l.cls = "HPUMLAImpl" THEN <<"store", "split", "attend">>
    ELSE IF l.attn_type = "ENCODER_DECODER" THEN <<"split", "store", "attend">>
    ELSE <<"bind_none", "split", "store", "attend">>

\* common_attention_args with the two caches exchanged
common_attention_args_swapped(block_list, key_cache, value_cache) ==
    [block_list |-> block_list, key_cache |-> value_cache, value_cache |-> key_cache]

common_attention_args(block_list, key_cache, value_cache) ==
    [block_list |-> block_list, key_cache |-> key_cache, value_cache |-> value_cache]

\* the block table with every block index taken modulo the pool size
TableOf_wrapped(md) ==
    LET Wrapped(indices) ==
            IF indices = None THEN None
            ELSE Tab([i \in DOMAIN indices |-> indices[i] % NumBlocks])
    IN  IF IsCross
        THEN [block_indices |-> Wrapped(md.cross_block_indices),
              block_offsets |-> md.cross_block_offsets,
              block_list |-> Wrapped(md.cross_block_list),
              block_mapping |-> md.cross_block_mapping,
              block_groups |-> md.cross_block_groups,
              attn_bias |-> md.cross_attn_bias,
              names |-> [block_indices |-> "cross_block_indices",
                        block_offsets |-> "cross_block_offsets",
                        block_list |-> "cross_block_list",
                        block_mapping |-> "cross_block_mapping",
                        block_groups |-> "cross_block_groups",
                        attn_bias |-> "cross_attn_bias"]]
        ELSE [block_indices |-> Wrapped(md.block_indices),
              block_offsets |-> md.block_offsets,
              block_list |-> Wrapped(md.block_list),
              block_mapping |-> md.block_mapping,
              block_groups |-> md.block_groups,
              attn_bias |-> md.attn_bias,
              names |-> [block_indices |-> "block_indices",
                        block_offsets |-> "block_offsets",
                        block_list |-> "block_list",
                        block_mapping |-> "block_mapping",
                        block_groups |-> "block_groups",
                        attn_bias |-> "attn_bias"]]

\* the cross-attention decode branch taking attn_metadata.block_list
TableOf_self_block_list(md) ==
    IF IsCross
    THEN [block_indices |-> md.cross_block_indices,
          block_offsets |-> md.cross_block_offsets,
          block_list |-> md.block_list,
          block_mapping |-> md.cross_block_mapping,
          block_groups |-> md.cross_block_groups,
          attn_bias |-> md.cross_attn_bias,
          names |-> [block_indices |-> "cross_block_indices",
                     block_offsets |-> "cross_block_offsets",
                     block_list |-> "block_list",
                     block_mapping |-> "cross_block_mapping",
                     block_groups |-> "cross_block_groups",
                     attn_bias |-> "cross_attn_bias"]]
    ELSE [block_indices |-> md.block_indices,
          block_offsets |-> md.block_offsets,
          block_list |-> md.block_list,
          block_mapping |-> md.block_mapping,
          block_groups |-> md.block_groups,
          attn_bias |-> md.attn_bias,
          names |-> [block_indices |-> "block_indices",
                     block_offsets |-> "block_offsets",
                     block_list |-> "block_list",
                     block_mapping |-> "block_mapping",
                     block_groups |-> "block_groups",
                     attn_bias |-> "attn_bias"]]

\* the block table fields a call of the layer goes by, with the names of the
\* attn_metadata fields they are read from
TableOf(md) ==
    IF IsCross
    THEN [block_indices |-> md.cross_block_indices,
          block_offsets |-> md.cross_block_offsets,
          block_list |-> md.cross_block_list,
          block_mapping |-> md.cross_block_mapping,
          block_groups |-> md.cross_block_groups,
          attn_bias |-> md.cross_attn_bias,
          names |-> [block_indices |-> "cross_block_indices",
                     block_offsets |-> "cross_block_offsets",
                     block_list |-> "cross_block_list",
                     block_mapping |-> "cross_block_mapping",
                     block_groups |-> "cross_block_groups",
                     attn_bias |-> "cross_attn_bias"]]
    ELSE [block_indices |-> md.block_indices,
          block_offsets |-> md.block_offsets,
          block_list |-> md.block_list,
          block_mapping |-> md.block_mapping,
          block_groups |-> md.block_groups,
          attn_bias |-> md.attn_bias,
          names |-> [block_indices |-> "block_indices",
                     block_offsets |-> "block_offsets",
                     block_list |-> "block_list",
                     block_mapping |-> "block_mapping",
                     block_groups |-> "block_groups",
                     attn_bias |-> "attn_bias"]]

\* the token behind row r of call number c: every row of a behaviour is
\* distinct
Token(c, r) == c * MaxBatch * BlockSize + r + 1
KeyRow(t)   == HeadRow(t)
ValueRow(t) == HeadRow(-t)

\* attn_metadata of a batch: n decode tokens (one sequence and one block
\* each), or n prompts of block_size tokens (one block each).  The cross
\* table addresses other blocks; no cross key is unflattened, so the cross
\* table of a prompt batch has one (block, offset) entry per token.
Metadata(is_prompt, n, bi, bo) ==
    LET rows    == IF is_prompt THEN n * BlockSize ELSE n
        seq(r)  == IF is_prompt THEN r \div BlockSize ELSE r
        shifted == Tab([r \in Rng(rows) |->
                       IF bi[seq(r)] \in Rng(NumBlocks)
                       THEN (bi[seq(r)] + 1) % NumBlocks
                       ELSE bi[seq(r)]])
    IN
    [is_prompt |-> is_prompt,
     block_indices |-> bi,
     block_offsets |-> IF is_prompt THEN None ELSE bo,
     block_list    |-> IF is_prompt THEN None ELSE bi,
     block_mapping |-> IF is_prompt THEN None
                       ELSE OneHot([i \in Rng(n) |-> i], n),
     block_groups  |-> IF is_prompt THEN None ELSE Tab([i \in Rng(n) |-> i]),
     attn_bias     |-> IF is_prompt
                       THEN Tab([b \in Rng(n) |-> CausalBias(BlockSize, BlockSize)])
                       ELSE Tab([i \in Rng(n) |-> UsageBias(bo[i] + 1)]),
     cross_block_indices |-> shifted,
     cross_block_offsets |-> IF is_prompt
                             THEN Tab([r \in Rng(rows) |-> r % BlockSize])
                             ELSE bo,
     cross_block_list    |-> IF is_prompt THEN None ELSE shifted,
     cross_block_mapping |-> IF is_prompt THEN None
                             ELSE OneHot([i \in Rng(n) |-> i], n),
     cross_block_groups  |-> IF is_prompt THEN None ELSE Tab([i \in Rng(n) |-> i]),
     cross_attn_bias     |-> IF is_prompt THEN None
                             ELSE Tab([i \in Rng(n) |-> UsageBias(bo[i] + 1)])]

FwdInit ==
    /\ ProcParked
    /\ fn = "none" /\ args = <<>> /\ ret = <<>> /\ prev = <<>> /\ mark = <<>>
    /\ layer \in Layers
    /\ kv_cache = [k |-> ZeroStore(RowWidth(layer)), v |-> ZeroStore(RowWidth(layer))]
    /\ frame = Idle
    /\ events = <<>>
    /\ output = <<>>
    /\ calls = 0

\* forward(layer, query, key, value, kv_cache, attn_metadata) is entered
Forward ==
    /\ frame.pc = 0
    /\ calls < MaxCalls
    /\ \E is_prompt \in BOOLEAN, has_cache \in BOOLEAN, n \in 1 .. MaxBatch :
         \* block index NumBlocks lies outside the pool
         \E bi \in [Rng(n) -> Rng(NumBlocks + 1)], bo \in [Rng(n) -> Rng(BlockSize)] :
            /\ is_prompt => \A i \in Rng(n) : bo[i] = 0
            /\ frame' =
                 [pc |-> 1,
                  has_cache |-> has_cache,
                  query |-> IF is_prompt
                            THEN Tab([b \in Rng(n) |-> Tab([t \in Rng(BlockSize) |->
                                     HeadRow(1 + t)])])
                            ELSE Tab([e \in Rng(n) |-> HeadRow(1)]),
                  key   |-> IF is_prompt
                            THEN Tab([b \in Rng(n) |-> Tab([t \in Rng(BlockSize) |->
                                     KeyRow(Token(calls, b * BlockSize + t))])])
                            ELSE Tab([e \in Rng(n) |-> KeyRow(Token(calls, e))]),
                  value |-> IF is_prompt
                            THEN Tab([b \in Rng(n) |-> Tab([t \in Rng(BlockSize) |->
                                     ValueRow(Token(calls, b * BlockSize + t))])])
                            ELSE Tab([e \in Rng(n) |-> ValueRow(Token(calls, e))]),
                  attn_metadata |-> Metadata(is_prompt, n, Tab(bi), Tab(bo)),
                  metadata_before |-> Metadata(is_prompt, n, Tab(bi), Tab(bo)),
                  key_cache |-> "unbound",
                  value_cache |-> "unbound",
                  fetched |-> None,
                  cache_before |-> kv_cache,
                  \* block_indices = attn_metadata.[cross_]block_indices
                  \* and block_offsets, read ahead of the cache guard
                  reads |-> LET t == TableOf(Metadata(is_prompt, n, Tab(bi), Tab(bo)))
                            IN  {t.names.block_indices, t.names.block_offsets}]
    /\ events' = <<>>
    /\ output' = <<>>
    /\ calls' = calls + 1
    /\ UNCHANGED <<layer, kv_cache>>
    /\ UNCHANGED <<opvars, procvars>>

Running == frame.pc >= 1 /\ frame.pc <= Len(forward_steps(layer))
AtStep(name) == Running /\ forward_steps(layer)[frame.pc] = name

\* an exception leaves the body
Raise(status) ==
    /\ output' = [status |-> status, op |-> "none", val |-> None,
                  operands |-> None]
    /\ frame' = [frame EXCEPT !.pc = Len(forward_steps(layer)) + 1]

\* key_cache = None; value_cache = None
BindNone ==
    /\ AtStep("bind_none")
    /\ frame' = [frame EXCEPT !.pc = @ + 1, !.key_cache = "None",
                              !.value_cache = "None"]
    /\ UNCHANGED <<layer, kv_cache, events, output, calls>>
    /\ UNCHANGED <<opvars, procvars>>

\* inside the cache guard: the locals are bound to the stores of kv_cache
\* (HPUMLAImpl: k_cache = kv_cache[0]; v_cache = None)
SplitCache ==
    /\ AtStep("split")
    /\ IF ~writes_cache(frame)
       THEN /\ frame' = [frame EXCEPT !.pc = @ + 1]
            /\ UNCHANGED output
       ELSE IF ~frame.has_cache
       THEN Raise("TypeError")
       ELSE /\ frame' = [frame EXCEPT !.pc = @ + 1,
                            !.key_cache = split_kv_cache.key_cache,
                            !.value_cache = IF IsMLA THEN "None"
                                            ELSE split_kv_cache.value_cache]
            /\ UNCHANGED output
    /\ UNCHANGED <<layer, kv_cache, events, calls>>
    /\ UNCHANGED <<opvars, procvars>>

\* the rows a call stores: key and value rows, or the latent rows
\* concat(k_c_normed, rotary k_pe) of the latent path
NewRows(f, which) ==
    LET md   == f.attn_metadata
        flat == IF md.is_prompt THEN flatten01(f[which]) ELSE f[which]
        rows == IF IsMLA
                THEN LET pe == IF md.is_prompt THEN flatten01(f.value) ELSE f.value
                     IN  Tab([r \in DOMAIN flat |-> concat(flat[r], rotary_emb(r, pe[r]))])
                ELSE flat
    IN  IF md.is_prompt /\ ~IsCross
        THEN unflatten0(rows, Size(md.block_indices))
        ELSE rows

\* inside the cache guard: self.k_cache(key, key_cache, block_indices,
\* block_offsets) and self.v_cache(value, ...); the latent path stores one
\* joint row into kv_cache[0]
StoreRows ==
    /\ AtStep("store")
    /\ IF ~writes_cache(frame)
       THEN /\ frame' = [frame EXCEPT !.pc = @ + 1]
            /\ UNCHANGED <<kv_cache, events, output>>
       ELSE IF ~frame.has_cache
       THEN /\ Raise("TypeError")
            /\ UNCHANGED <<kv_cache, events>>
       ELSE IF cache_write_raises(kv_cache.k, TableOf(frame.attn_metadata).block_indices)
       THEN /\ Raise("IndexError")
            /\ UNCHANGED <<kv_cache, events>>
       ELSE LET t == TableOf(frame.attn_metadata)
                n == Size(t.block_indices)
            IN  \E ok \in Perms(n), ov \in Perms(n) :
                  /\ kv_cache' =
                       IF IsMLA
                       THEN [kv_cache EXCEPT !.k =
                               cache_write(NewRows(frame, "key"), @,
                                   t.block_indices, t.block_offsets, ok)]
                       ELSE [k |-> cache_write(NewRows(frame, "key"), kv_cache.k,
                                       t.block_indices, t.block_offsets, ok),
                             v |-> cache_write(NewRows(frame, "value"), kv_cache.v,
                                       t.block_indices, t.block_offsets, ov)]
                  /\ IsMLA => ov = ok
                  /\ events' = events \o
                       (IF IsMLA THEN << [op |-> "write", store |-> "k"] >>
                        ELSE << [op |-> "write", store |-> "k"],
                                [op |-> "write", store |-> "v"] >>)
                  /\ frame' = [frame EXCEPT !.pc = @ + 1]
                  /\ UNCHANGED output
    /\ UNCHANGED <<layer, calls>>
    /\ UNCHANGED <<opvars, procvars>>

\* _make_alibi_bias for one head: slope * (j - i) at row i, column j
make_alibi_bias(alibi_slopes, seq_len) ==
    Tab([i \in Rng(seq_len) |-> Tab([j \in Rng(seq_len) |->
        fmul(Num(j - i), alibi_slopes[1])])])

\* a tensor is its storage and its content; the storage of a field of
\* attn_metadata is "attn_metadata"
\* tile returning the tensor it was given
tile_same_storage(t) == t

\* attn_bias.tile((1, self.num_kv_heads, 1, 1)): a new tensor with the
\* content repeated (one kv head: the same content)
tile(t) == [storage |-> "new", data |-> t.data]

\* attn_bias.add_(position_bias): in place, position_bias broadcast over
\* the batch
add_(t, position_bias) ==
    [t EXCEPT !.data = Tab([b \in DOMAIN @ |-> Tab([i \in DOMAIN @[b] |->
        Tab([j \in DOMAIN @[b][i] |-> fadd(@[b][i][j], position_bias[i][j])])])])]

\* attn_bias of the prompt branch after the ALiBi lines
prompt_attn_bias(md) ==
    LET attn_bias == [storage |-> "attn_metadata", data |-> md.attn_bias] IN
    IF attn_bias.data # None /\ layer.alibi_slopes # None
    THEN add_(tile(attn_bias), make_alibi_bias(layer.alibi_slopes, BlockSize))
    ELSE attn_bias

\* the prompt branch: ops.prompt_attention on the new query, key and value
\* (HPUMLAImpl: _forward_prefill on q, k_c_normed and k_pe)
AttendPrompt ==
    /\ AtStep("attend")
    /\ frame.attn_metadata.is_prompt
    /\ IF IsMLA
       THEN /\ output' = [status |-> "ok", op |-> "_forward_prefill", val |-> None,
                          operands |-> [key |-> frame.key, value |-> frame.value]]
            /\ frame' = [frame EXCEPT !.pc = @ + 1,
                            !.reads = @ \cup {"attn_bias"}]
       ELSE IF IsCross
       THEN /\ output' = [status |-> "ok", op |-> "prompt_attention",
                          val |-> prompt_attention(frame.query, frame.key,
                                      frame.value, None, One, FALSE),
                          operands |-> [key |-> frame.key, value |-> frame.value]]
            /\ frame' = [frame EXCEPT !.pc = @ + 1]
       ELSE LET attn_bias == prompt_attn_bias(frame.attn_metadata) IN
            /\ output' = [status |-> "ok", op |-> "prompt_attention",
                          val |-> prompt_attention(frame.query, frame.key,
                                      frame.value, attn_bias.data, One, FALSE),
                          operands |-> [key |-> frame.key, value |-> frame.value]]
            /\ frame' = [frame EXCEPT !.pc = @ + 1,
                            !.reads = @ \cup {"attn_bias", "block_list"},
                            !.attn_metadata.attn_bias =
                                IF attn_bias.storage = "attn_metadata"
                                THEN attn_bias.data ELSE @]
    /\ UNCHANGED <<layer, kv_cache, events, calls>>
    /\ UNCHANGED <<opvars, procvars>>

\* the caches after a flat_pa whose in-place sub_ landed on the fetched key
\* blocks
cache_after_flat_pa_inplace_on_key(cache, key_cache, block_list) ==
    [cache EXCEPT ![key_cache] =
        Tab([blk \in DOMAIN @ |->
            IF \E p \in DOMAIN block_list : block_list[p] = blk
            THEN Tab([s \in DOMAIN @[blk] |->
                     Tab([i \in DOMAIN @[blk][s] |-> fsub(@[blk][s][i], One)])])
            ELSE @[blk]])]

\* the caches after flat_pa: its in-place operations (sub_, exp_, add_,
\* div_) act on attn and sums, which matmul_qk_op and sum produced; the
\* caches are arguments of the fetch functions only
cache_after_flat_pa(cache, key_cache, block_list) == cache

\* the decode branch: HPUPagedAttention.forward_decode over the cache the
\* locals refer to
AttendDecode ==
    /\ AtStep("attend")
    /\ ~frame.attn_metadata.is_prompt
    /\ IF frame.key_cache = "unbound" \/ frame.value_cache = "unbound"
       THEN Raise("UnboundLocalError") /\ UNCHANGED <<events, kv_cache>>
       ELSE IF frame.key_cache = "None"
       THEN Raise("AttributeError") /\ UNCHANGED <<events, kv_cache>>
       ELSE LET t == TableOf(frame.attn_metadata)
                a == common_attention_args(t.block_list, frame.key_cache,
                                           frame.value_cache)
                keys == fetch_from_cache(kv_cache[a.key_cache], a.block_list)
            IN  IF IsMLA
                THEN /\ output' = [status |-> "ok", op |-> "_forward_decode",
                                   val |-> None, operands |-> [key |-> keys]]
                     /\ events' = Append(events, [op |-> "fetch", store |-> a.key_cache])
                     /\ frame' = [frame EXCEPT !.pc = @ + 1,
                                     !.reads = @ \cup
                                        {t.names.block_list, t.names.block_mapping,
                                         t.names.block_groups, t.names.attn_bias},
                                     !.fetched = [k |-> keys]]
                     /\ kv_cache' = cache_after_flat_pa(kv_cache, a.key_cache,
                                                        a.block_list)
                ELSE /\ output' = [status |-> "ok", op |-> "flat_pa",
                          val |-> flat_pa(frame.query, kv_cache[a.key_cache],
                                     kv_cache[a.value_cache], a.block_list,
                                     t.block_mapping, t.attn_bias, One),
                          operands |-> None]
                     /\ events' = events \o
                          << [op |-> "fetch", store |-> a.key_cache],
                             [op |-> "fetch", store |-> a.value_cache] >>
                     /\ frame' = [frame EXCEPT !.pc = @ + 1,
                          !.reads = @ \cup
                             {t.names.block_list, t.names.block_mapping,
                              t.names.block_groups, t.names.attn_bias},
                          !.fetched = [k |-> keys,
                                       v |-> fetch_from_cache(kv_cache[a.value_cache],
                                                              a.block_list)]]
                     /\ kv_cache' = cache_after_flat_pa(kv_cache, a.key_cache,
                                                        a.block_list)
    /\ UNCHANGED <<layer, calls>>
    /\ UNCHANGED <<opvars, procvars>>

\* the call returns (or its exception reaches the caller)
Return ==
    /\ frame.pc = Len(forward_steps(layer)) + 1
    /\ frame' = Idle
    /\ UNCHANGED <<layer, kv_cache, events, output, calls>>
    /\ UNCHANGED <<opvars, procvars>>

Next == Forward \/ BindNone \/ SplitCache \/ StoreRows \/ AttendPrompt
            \/ AttendDecode \/ Return

Init == FwdInit

Spec == Init /\ [][Next]_vars

\* the body of the call in progress has run to its end
Done == frame.pc = Len(forward_steps(layer)) + 1

\* the rows of the call in progress that went to the slot of row i
RowsAt(rows, t, i) ==
    { rows[j] : j \in { j \in DOMAIN rows :
        /\ t.block_indices[j] = t.block_indices[i]
        /\ t.block_offsets = None \/ t.block_offsets[j] = t.block_offsets[i] } }

WritesDue == IF IsMLA THEN 1 ELSE 2

\* C6: in a call that was passed a cache, every fetch of cache blocks comes
\* after all of the call's cache writes, on the dense, the cross-attention
\* and the latent path.
C6_WriteBeforeRead ==
    (frame.pc >= 1 /\ frame.has_cache) =>
        \A j \in 1 .. Len(events) :
            events[j].op = "fetch" =>
                Cardinality({ i \in 1 .. (j - 1) : events[i].op = "write" }) = WritesDue

\* a decode call with a cache has written and then fetched
C6_Witness ==
    /\ Done /\ frame.has_cache /\ output.status = "ok"
    /\ Len(events) > WritesDue
    /\ events[1].op = "write"
    /\ events[Len(events)].op = "fetch"

\* C9: a prompt call without a cache writes nothing, leaves the cache as it
\* was, and returns the attention over the key and value rows it was
\* passed (HPUMLAImpl: through _forward_prefill).
C9_PrefillWithoutCache ==
    (Done /\ ~frame.has_cache /\ frame.attn_metadata.is_prompt) =>
        /\ kv_cache = frame.cache_before
        /\ \A i \in 1 .. Len(events) : events[i].op # "write"
        /\ output.status = "ok"
        /\ output.operands = [key |-> frame.key, value |-> frame.value]
        /\ output.op = IF IsMLA THEN "_forward_prefill" ELSE "prompt_attention"
        /\ ~IsMLA /\ ~IsCross /\ layer.alibi_slopes = None =>
             output.val = reference_attention(frame.query, frame.key, frame.value,
                              frame.attn_metadata.attn_bias, One)

\* a prompt call without a cache has returned, after an earlier call had
\* written the cache
C9_Witness ==
    /\ Done /\ ~frame.has_cache /\ frame.attn_metadata.is_prompt
    /\ output.status = "ok"
    /\ kv_cache.k # ZeroStore(RowWidth(layer))

\* C10: a decode call without a cache finds every local of the decode
\* branch bound, in all three forward bodies.
C10_DecodeWithoutCacheIsSafe ==
    (Done /\ ~frame.has_cache /\ ~frame.attn_metadata.is_prompt) =>
        output.status # "UnboundLocalError"

(***************************************************************************)
(* Frame of the cache write.                                               *)
(***************************************************************************)
IsDense == ~IsMLA /\ ~IsCross

\* the rows of input tensor `which` that the call in progress addresses to
\* slot (blk, s): decode row i goes to (block_indices[i],
\* block_offsets[i]); token s of prompt b goes to (block_indices[b], s)
Addressed(which, blk, s) ==
    LET md == frame.attn_metadata IN
    IF md.is_prompt
    THEN { frame[which][b][s] :
             b \in { b \in DOMAIN frame[which] : md.block_indices[b] = blk } }
    ELSE { frame[which][i] :
             i \in { i \in DOMAIN frame[which] :
                       md.block_indices[i] = blk /\ md.block_offsets[i] = s } }

C12_OnlyWriteMutates ==
    [][kv_cache' # kv_cache => AtStep("store")]_vars

\* a decode call has written the cache, fetched blocks and attended
C12_Witness ==
    /\ Done /\ frame.has_cache /\ output.status = "ok"
    /\ ~frame.attn_metadata.is_prompt
    /\ kv_cache # frame.cache_before
    /\ Len(events) > 0 /\ events[Len(events)].op = "fetch"

C19_MetadataUnchanged ==
    frame.pc >= 1 => frame.attn_metadata = frame.metadata_before

\* a prompt call of a layer with ALiBi slopes has attended with the
\* position bias added to the mask
C19_Witness ==
    /\ Done /\ IsDense /\ layer.alibi_slopes # None
    /\ frame.attn_metadata.is_prompt /\ output.status = "ok"
    /\ output.val # reference_attention(frame.query, frame.key, frame.value,
                        frame.metadata_before.attn_bias, One)

\* C14: flat_pa returns no output row for a batch element that owns no
\* block of block_mapping (the call fails instead).
C14_EmptyBlockListFails ==
    fn = "flat_pa" =>
        \A e \in Rng(Size(args.query)) :
            Owned(args.block_mapping, e) = {} => e \notin DOMAIN ret

(***************************************************************************)
(* Decode attention on block tables whose lengths disagree.                *)
(*                                                                         *)
(* torch.matmul and the elementwise operations broadcast a leading         *)
(* dimension of size 1; a matrix product needs equal inner dimensions.     *)
(***************************************************************************)
\* the leading dimension of a broadcast of m rows with n rows, -1 when the
\* two do not broadcast
broadcast_rows(m, n) ==
    IF m = n THEN m
    ELSE IF m = 1 THEN n
    ELSE IF n = 1 THEN m
    ELSE -1

\* flat_pa raises on these row counts: block_mapping has nm rows, block_list
\* (and block_bias) nl entries
flat_pa_raises(nm, nl) ==
    LET attn_rows == broadcast_rows(nm, nl)      \* matmul_qk_op(query, key)
    IN  \/ attn_rows = -1
        \/ attn_rows # nm                        \* block_mapping.t() @ sums

\* rows of a tensor broadcast to n rows
expand_rows(t, n) == Tab([i \in Rng(n) |-> t[IF Size(t) = 1 THEN 0 ELSE i]])

\* flat_pa on tables of any lengths: the error, or the result with the
\* fetched blocks broadcast against the rows of block_mapping
flat_pa_any(a) ==
    LET nm == Size(a.block_mapping)
        nl == Size(a.block_list)
    IN  IF flat_pa_raises(nm, nl)
        THEN [status |-> "RuntimeError", out |-> None]
        ELSE [status |-> "ok",
              out |-> flat_pa(a.query, a.key_cache, a.value_cache,
                              expand_rows(a.block_list, nm), a.block_mapping,
                              expand_rows(a.block_bias, nm), a.scale)]

ShapeInit ==
    /\ FwdParked
    /\ ProcParked
    /\ fn = "none"
    /\ ret = <<>>
    /\ prev = <<>>
    /\ mark = <<>>
    /\ \E batch \in 1 .. MaxBatch, nm \in 1 .. MaxBlocks, nl \in 1 .. MaxBlocks :
         \E owner \in [Rng(nm) -> Rng(batch)], usage \in [Rng(nl) -> 1 .. BlockSize] :
            args = [query |-> Tab([e \in Rng(batch) |-> HeadRow(e + 1)]),
                    key_cache |-> Tab([blk \in Rng(MaxBlocks) |->
                                     Tab([s \in Rng(BlockSize) |-> HeadRow(s)])]),
                    value_cache |-> Tab([blk \in Rng(MaxBlocks) |->
                                     Tab([s \in Rng(BlockSize) |->
                                         HeadRow(1 + blk * BlockSize + s)])]),
                    block_list |-> Tab([i \in Rng(nl) |-> i]),
                    block_mapping |-> OneHot(owner, batch),
                    block_bias |-> Tab([b \in Rng(nl) |-> Tab(UsageBias(usage[b]))]),
                    scale |-> One]

ApplyFlatPAAny ==
    /\ fn = "none"
    /\ fn' = "flat_pa"
    /\ ret' = flat_pa_any(args)
    /\ UNCHANGED <<args, prev, mark>>
    /\ UNCHANGED <<fwdvars, procvars>>

SpecShape == ShapeInit /\ [][ApplyFlatPAAny]_vars

\* C15: flat_pa fails whenever block_mapping has a number of block rows
\* other than the length of block_list.
C15_DimensionMismatchFails ==
    (fn = "flat_pa" /\ Size(args.block_mapping) # Size(args.block_list)) =>
        ret.status # "ok"

(***************************************************************************)
(* Construction of the latent attention implementation.  Argument values   *)
(* are written as their Python literals.                                   *)
(***************************************************************************)
\* bool(x) of an argument value
truthy(x) == x \notin {"None", "[]", "{}", "0", "0.0"}

\* HPUMLAImpl.__init__: the exception it raises, or "ok"
HPUMLAImpl_init(p) ==
    IF "fsdpa" \in p.enabled_flags /\ p.alibi_slopes # "None"
    THEN "AssertionError"
    ELSE IF \/ truthy(p.alibi_slopes)
            \/ truthy(p.sliding_window)
            \/ truthy(p.blocksparse_params)
            \/ truthy(p.logits_soft_cap)
    THEN "NotImplementedError"
    ELSE IF p.attn_type # "DECODER"
    THEN "NotImplementedError"
    ELSE "ok"

CtorInit ==
    /\ FwdParked
    /\ ProcParked
    /\ fn = "none"
    /\ ret = <<>>
    /\ prev = <<>>
    /\ mark = <<>>
    /\ args \in [alibi_slopes : {"None", "[]", "[0.5]"},
                 sliding_window : {"None", "0", "4096"},
                 blocksparse_params : {"None", "{}", "{'block_size': 64}"},
                 logits_soft_cap : {"None", "0.0", "30.0"},
                 attn_type : {"DECODER", "ENCODER"},
                 enabled_flags : SUBSET {"fsdpa"}]

Construct ==
    /\ fn = "none"
    /\ fn' = "__init__"
    /\ ret' = HPUMLAImpl_init(args)
    /\ UNCHANGED <<args, prev, mark>>
    /\ UNCHANGED <<fwdvars, procvars>>

SpecCtor == CtorInit /\ [][Construct]_vars

\* C16: constructing HPUMLAImpl with alibi slopes, a sliding window or
\* block-sparse parameters given (not None) raises NotImplementedError,
\* whatever their values and the enabled flags.
C16_UnsupportedAlwaysRejected ==
    (/\ fn = "__init__"
     /\ \/ args.alibi_slopes # "None"
        \/ args.sliding_window # "None"
        \/ args.blocksparse_params # "None") =>
        ret = "NotImplementedError"

(***************************************************************************)
(* Prompt attention on its two branches: the same inputs with the fused    *)
(* kernel present (HPUFusedSDPA is not None) and absent.                   *)
(***************************************************************************)
\* the branch prompt_attention takes
prompt_attention_path(attn_bias, fused) ==
    IF attn_bias # None \/ ~fused THEN "reference" ELSE "fused"

\* prompt_attention returns normally on either branch
PromptResult(a) ==
    [status |-> "ok",
     path |-> prompt_attention_path(a.attn_bias, a.fused),
     out |-> prompt_attention(a.query, a.key, a.value, a.attn_bias, a.scale, a.fused)]

PromptInit ==
    /\ FwdParked
    /\ ProcParked
    /\ fn = "none"
    /\ ret = <<>>
    /\ prev = <<>>
    /\ mark = <<>>
    /\ \E batch \in 1 .. MaxBatch, seq \in 1 .. BlockSize, fused \in BOOLEAN,
          bias \in {"None", "causal", "zero"} :
         \E level \in [Rng(batch * seq) -> 0 .. MaxVal] :
            args = [query |-> Tab([b \in Rng(batch) |-> Tab([t \in Rng(seq) |->
                                 HeadRow(1)])]),
                    key   |-> Tab([b \in Rng(batch) |-> Tab([t \in Rng(seq) |->
                                 HeadRow(level[b * seq + t])])]),
                    value |-> Tab([b \in Rng(batch) |-> Tab([t \in Rng(seq) |->
                                 HeadRow(1 + b * seq + t)])]),
                    attn_bias |->
                        IF bias = "None" THEN None
                        ELSE IF bias = "causal"
                        THEN Tab([b \in Rng(batch) |-> CausalBias(seq, seq)])
                        ELSE Tab([b \in Rng(batch) |-> Tab([tq \in Rng(seq) |->
                                 Tab([tk \in Rng(seq) |-> Zero])])]),
                    scale |-> One,
                    fused |-> fused]

ApplyPromptAttention ==
    /\ fn = "none"
    /\ fn' = "prompt_attention"
    /\ ret' = PromptResult(args)
    /\ UNCHANGED <<args, prev, mark>>
    /\ UNCHANGED <<fwdvars, procvars>>

\* the same inputs with the fused kernel present instead of absent, or
\* absent instead of present
ApplyOtherPath ==
    /\ fn = "prompt_attention"
    /\ fn' = "other"
    /\ args' = [args EXCEPT !.fused = ~@]
    /\ prev' = ret
    /\ ret' = PromptResult(args')
    /\ UNCHANGED mark
    /\ UNCHANGED <<fwdvars, procvars>>

PromptNext == ApplyPromptAttention \/ ApplyOtherPath

SpecPrompt == PromptInit /\ [][PromptNext]_vars

\* C17: prompt_attention fails with an unsupported-configuration error when
\* a bias is supplied while the fused kernel is the selected path.
C17_BiasWithFusedFails ==
    (fn = "prompt_attention" /\ args.attn_bias # None /\ args.fused) =>
        ret.status = "UnsupportedConfiguration"

\* C18: on the same query, key, value and bias, prompt_attention with the
\* fused kernel and without it returns the same output.
C18_FusedEqualsReference ==
    fn = "other" => ret.out = prev.out

(***************************************************************************)
(* Latent decode with and without matrix absorption.  One head, one        *)
(* sequence; kv_lora_rank = 1 and qk_rope_head_dim = 1, so a latent cache  *)
(* row is <<k_c, k_pe>>.                                                   *)
(***************************************************************************)
MLAHidden == 2      \* hidden size; also qk_nope_head_dim and v_head_dim

\* the weights of the layer; W_Q_UK and W_UV_O are the products stored when
\* absorption is enabled
Weights(w_uk, w_qr) ==
    LET W_Q  == Tab([i \in Rng(MLAHidden) |-> Tab([j \in Rng(MLAHidden) |->
                    IF j >= i THEN One ELSE Zero])])
        W_UK == Tab([p \in Rng(MLAHidden) |-> Tab([l \in Rng(1) |-> Num(w_uk[p])])])
        W_QR == Tab([i \in Rng(MLAHidden) |-> Tab([r \in Rng(1) |-> Num(w_qr[i])])])
        W_UV == Tab([l \in Rng(1) |-> Tab([v \in Rng(MLAHidden) |-> Num(v + 1)])])
        W_O  == Tab([v \in Rng(MLAHidden) |-> Tab([o \in Rng(1) |-> One])])
    IN  [W_Q |-> W_Q, W_UK |-> W_UK, W_QR |-> W_QR, W_UV |-> W_UV, W_O |-> W_O,
         W_Q_UK |-> matmul(W_Q, W_UK), W_UV_O |-> matmul(W_UV, W_O)]

\* MLACommonImpl._q_proj_and_k_up_proj: x @ W_Q_UK with absorption; without,
\* the pair of (x @ W_Q) @ W_UK and x @ W_QR that forward unpacks
q_proj_and_k_up_proj(x, W, absorb) ==
    IF absorb THEN matmul(x, W.W_Q_UK)
    ELSE << matmul(matmul(x, W.W_Q), W.W_UK), matmul(x, W.W_QR) >>

\* MLACommonImpl._v_up_proj_and_o_proj
v_up_proj_and_o_proj(x, W, absorb) ==
    IF absorb THEN matmul(x, W.W_UV_O)
    ELSE matmul(matmul(x, W.W_UV), W.W_O)

\* the decode branch with the pair unpacked in the opposite order
mla_decode_q_unpack_swapped(x, W, absorb) ==
    IF absorb
    THEN [q_nope |-> q_proj_and_k_up_proj(x, W, absorb), q_pe |-> matmul(x, W.W_QR)]
    ELSE LET r == q_proj_and_k_up_proj(x, W, absorb)
         IN  [q_nope |-> r[2], q_pe |-> r[1]]

\* HPUMLAImpl.forward, decode: q_nope and q_pe before the rotary embedding
mla_decode_q(x, W, absorb) ==
    IF absorb
    THEN [q_nope |-> q_proj_and_k_up_proj(x, W, absorb), q_pe |-> matmul(x, W.W_QR)]
    ELSE LET r == q_proj_and_k_up_proj(x, W, absorb)
         IN  [q_nope |-> r[1], q_pe |-> r[2]]

\* HPUPagedAttention.forward_decode with kv_lora_rank: flat paged attention
\* of one head whose keys are the latent rows and whose values are their
\* first kv_lora_rank entries
latent_forward_decode(query, key_cache, block_list, block_mapping, block_bias) ==
    LET key    == fetch_from_cache(key_cache, block_list)
        queryb == batch2block(query, block_mapping)
        scores == Tab([b \in DOMAIN key |-> Tab([h \in Rng(1) |->
                      Tab([s \in DOMAIN key[b] |->
                          fadd(SumTo([i \in DOMAIN queryb[b] |->
                                        fmul(queryb[b][i], key[b][s][i])],
                                     Size(queryb[b])),
                               block_bias[b][s])])])])
        attn   == block_softmax(Size(query), scores, block_mapping)
        av     == Tab([b \in DOMAIN key |-> Tab([l \in Rng(1) |->
                      SumTo([s \in DOMAIN key[b] |-> fmul(attn[b][0][s], key[b][s][l])],
                            Size(key[b]))])])
    IN  block2batch(av, block_mapping)

\* HPUMLAImpl.forward (decode) and _forward_decode on hidden states x: the
\* query handed to the paged attention and the result
mla_decode(a, absorb) ==
    LET q     == mla_decode_q(a.x, a.W, absorb)
        q_pe  == Tab([e \in DOMAIN q.q_pe |-> rotary_emb(e, q.q_pe[e])])
        query == Tab([e \in DOMAIN q.q_nope |-> concat(q.q_nope[e], q_pe[e])])
        out   == latent_forward_decode(query, a.key_cache, a.block_list,
                                       a.block_mapping, a.block_bias)
    IN  [query |-> query, result |-> v_up_proj_and_o_proj(out, a.W, absorb)]

AbsorbInit ==
    /\ FwdParked
    /\ ProcParked
    /\ fn = "none"
    /\ ret = <<>>
    /\ prev = <<>>
    /\ mark = <<>>
    /\ \E x \in [Rng(MLAHidden) -> (-1) .. 1],
          w_uk \in [Rng(MLAHidden) -> 0 .. 1],
          w_qr \in [Rng(MLAHidden) -> 0 .. 1] :
         args = [x |-> Tab([e \in Rng(1) |-> Tab([i \in Rng(MLAHidden) |-> Num(x[i])])]),
                 W |-> Weights(w_uk, w_qr),
                 key_cache |-> Tab([blk \in Rng(1) |-> Tab([s \in Rng(BlockSize) |->
                                  concat(HeadRow(s + 1), HeadRow(s))])]),
                 block_list |-> Tab([i \in Rng(1) |-> 0]),
                 block_mapping |-> OneHot([i \in Rng(1) |-> 0], 1),
                 block_bias |-> Tab([b \in Rng(1) |-> Tab(UsageBias(BlockSize))])]

\* the decode step with VLLM_MLA_PERFORM_MATRIX_ABSORPTION=1
DecodeAbsorbed ==
    /\ fn = "none"
    /\ fn' = "absorbed"
    /\ ret' = mla_decode(args, TRUE)
    /\ UNCHANGED <<args, prev, mark>>
    /\ UNCHANGED <<fwdvars, procvars>>

\* the same step with VLLM_MLA_PERFORM_MATRIX_ABSORPTION=0
DecodeUnabsorbed ==
    /\ fn = "absorbed"
    /\ fn' = "unabsorbed"
    /\ prev' = ret
    /\ ret' = mla_decode(args, FALSE)
    /\ UNCHANGED <<args, mark>>
    /\ UNCHANGED <<fwdvars, procvars>>

AbsorbNext == DecodeAbsorbed \/ DecodeUnabsorbed

SpecAbsorb == AbsorbInit /\ [][AbsorbNext]_vars

C21_RemapSemantics ==
    /\ fn = "batch2block" =>
         /\ DOMAIN ret = DOMAIN args.block_mapping
         /\ \A b \in DOMAIN ret : \A e \in DOMAIN args.x :
               args.block_mapping[b][e] = One => ret[b] = args.x[e]
    /\ fn = "block2batch_rows" =>
         /\ DOMAIN ret = DOMAIN args.x
         /\ \A e \in DOMAIN ret : \A j \in DOMAIN ret[e] :
               ret[e][j] = SumOver(Owned(args.block_mapping, e),
                                   [b \in DOMAIN prev |-> prev[b][j]])

\* block rows that differ have been folded into a batch element owning two
\* blocks, next to a batch element owning none
C21_Witness ==
    /\ fn = "block2batch_rows"
    /\ \E e \in DOMAIN args.x :
         /\ Cardinality(Owned(args.block_mapping, e)) = 2
         /\ \E b, c \in Owned(args.block_mapping, e) : prev[b] # prev[c]
    /\ \E e \in DOMAIN args.x : Owned(args.block_mapping, e) = {}

\* the slot that PerturbCache overwrote is masked by block_bias
MaskedSlotChanged ==
    /\ fn = "perturbed"
    /\ args.block_bias[RowOfBlock(args, mark.blk)][mark.slot] = NegInf

\* C22: a key/value slot masked by block_bias gets zero attention weight,
\* and changing the key or the value stored in a masked slot changes the
\* output of no sequence.
C22_MaskedSlotHasNoInfluence ==
    MaskedSlotChanged =>
        /\ ret = prev
        /\ LET w == block_softmax(Size(args.query), Scores(args),
                                  args.block_mapping)
           IN  \A h \in DOMAIN w[RowOfBlock(args, mark.blk)] :
                  w[RowOfBlock(args, mark.blk)][h][mark.slot] = Zero

\* the cross-attention table fields of attn_metadata, and the fields of the
\* self-attention table
CrossFields == {"cross_block_indices", "cross_block_offsets", "cross_block_list",
                "cross_block_mapping", "cross_block_groups", "cross_attn_bias"}
SelfFields  == {"block_indices", "block_offsets", "block_list", "block_mapping",
                "block_groups", "attn_bias"}

\* slot (blk, s) is addressed by the table (indices, offsets); without
\* offsets a row of indices addresses the whole block
SlotIn(indices, offsets, blk, s) ==
    \E r \in DOMAIN indices :
        indices[r] = blk /\ (offsets = None \/ offsets[r] = s)

\* every slot that the call in progress has changed is addressed by the
\* table (indices, offsets)
ChangedWithin(indices, offsets) ==
    \A st \in {"k", "v"} : \A blk \in DOMAIN kv_cache[st] :
        \A s \in DOMAIN kv_cache[st][blk] :
            kv_cache[st][blk][s] # frame.cache_before[st][blk][s]
                => SlotIn(indices, offsets, blk, s)

\* C23: a call of an ENCODER_DECODER layer reads only the cross_* table
\* fields of attn_metadata, changes only cache slots addressed by
\* cross_block_indices and cross_block_offsets and fetches the blocks of
\* cross_block_list; a call of any other layer reads no cross_* field,
\* changes only slots addressed by block_indices and block_offsets and
\* fetches the blocks of block_list.
C23_CrossFieldsOnly ==
    frame.pc >= 1 =>
        LET md == frame.metadata_before IN
        IF IsCross
        THEN /\ frame.reads \subseteq CrossFields
             /\ ChangedWithin(md.cross_block_indices, md.cross_block_offsets)
             /\ frame.fetched # None =>
                  frame.fetched.k = fetch_from_cache(kv_cache.k, md.cross_block_list)
        ELSE /\ frame.reads \subseteq SelfFields
             /\ ChangedWithin(md.block_indices, md.block_offsets)
             /\ frame.fetched # None =>
                  frame.fetched.k = fetch_from_cache(kv_cache.k, md.block_list)

\* a cross-attention decode call has stored a row and attended over blocks
\* that the self-attention table does not name
C23_Witness ==
    /\ Done /\ IsCross /\ frame.has_cache /\ output.status = "ok"
    /\ ~frame.attn_metadata.is_prompt
    /\ frame.fetched # None
    /\ frame.reads = CrossFields
    /\ kv_cache # frame.cache_before
    /\ \A i \in DOMAIN frame.attn_metadata.cross_block_list :
          \A j \in DOMAIN frame.attn_metadata.block_list :
             frame.attn_metadata.cross_block_list[i] # frame.attn_metadata.block_list[j]

(***************************************************************************)
(* Latent-attention prefill: HPUMLAImpl._forward_prefill after kv_b_proj.  *)
(*   q       (batch, seq, heads, qk_head_dim)                              *)
(*   k_nope  (batch, seq, heads, qk_nope_head_dim)                         *)
(*   k_pe    (batch, seq, qk_rope_head_dim), shared by the heads           *)
(*   v       (batch, seq, heads, v_head_dim), v_head_dim < qk_head_dim     *)
(***************************************************************************)
PrefillLen == 2     \* tokens of the prompt
RopeDim    == 1     \* qk_rope_head_dim

\* padding with ones instead of zeros
pad_ones(row, n) ==
    Tab([d \in Rng(Size(row) + n) |-> IF d < Size(row) THEN row[d] ELSE One])

\* torch.nn.functional.pad(row, [0, n], value=0)
pad(row, n) ==
    Tab([d \in Rng(Size(row) + n) |-> IF d < Size(row) THEN row[d] ELSE Zero])

\* prompt_attention on tensors viewed as (batch, seq, heads, head_dim), the
\* head counts of query and key equal; the value rows may be narrower
prompt_attention_heads(query, key, value, attn_bias, scale, fused) ==
    LET bias == IF attn_bias # None \/ ~fused THEN attn_bias
                ELSE Tab([b \in DOMAIN query |->
                         CausalBias(Size(query[b]), Size(key[b]))])
    IN  Tab([b \in DOMAIN query |-> Tab([tq \in DOMAIN query[b] |->
          Tab([h \in DOMAIN query[b][tq] |->
            LET w == softmax(Tab([tk \in DOMAIN key[b] |->
                        LET qk == SumTo([d \in DOMAIN query[b][tq][h] |->
                                     fmul(fmul(query[b][tq][h][d], scale),
                                          key[b][tk][h][d])],
                                     Size(query[b][tq][h]))
                        IN  IF bias = None THEN qk
                            ELSE fadd(qk, bias[b][tq][tk])]))
            IN  Tab([c \in DOMAIN value[b][0][h] |->
                   SumTo([tk \in DOMAIN key[b] |->
                            fmul(w[tk], value[b][tk][h][c])], Size(key[b]))])])])])

\* _forward_prefill from the split of kv_nope to the slice of the attention
\* output: out is what prompt_attention returns, attn_output what is handed
\* to o_proj
forward_prefill(a) ==
    LET k == Tab([b \in DOMAIN a.k_nope |-> Tab([t \in DOMAIN a.k_nope[b] |->
                Tab([h \in DOMAIN a.k_nope[b][t] |->
                    concat(a.k_nope[b][t][h], a.k_pe[b][t])])])])
        v_padded ==
             Tab([b \in DOMAIN a.v |-> Tab([t \in DOMAIN a.v[b] |->
                Tab([h \in DOMAIN a.v[b][t] |->
                    pad(a.v[b][t][h],
                        Size(a.q[b][t][h]) - Size(a.v[b][t][h]))])])])
        out == prompt_attention_heads(a.q, k, v_padded, a.attn_bias, a.scale,
                                      a.fused)
    IN  [key |-> k,
         out |-> out,
         attn_output |->
             Tab([b \in DOMAIN out |-> Tab([t \in DOMAIN out[b] |->
                Tab([h \in DOMAIN out[b][t] |->
                    Tab([c \in DOMAIN a.v[b][t][h] |-> out[b][t][h][c]])])])])]

PrefillInit ==
    /\ FwdParked
    /\ ProcParked
    /\ fn = "none"
    /\ ret = <<>>
    /\ prev = <<>>
    /\ mark = <<>>
    /\ \E heads \in 1 .. MaxKvHeads, fused \in BOOLEAN, with_bias \in BOOLEAN :
         \E qv \in [Rng(PrefillLen) -> 0 .. MaxVal],
            kn \in [Rng(PrefillLen) -> 0 .. MaxVal],
            vv \in [Rng(PrefillLen) -> -1 .. MaxVal] :
            args = [q |-> Tab([b \in Rng(1) |-> Tab([t \in Rng(PrefillLen) |->
                            Tab([h \in Rng(heads) |->
                                Tab([d \in Rng(MLAHidden + RopeDim) |->
                                    Num(qv[t] + (IF d = 0 THEN h ELSE 0))])])])]),
                    k_nope |-> Tab([b \in Rng(1) |-> Tab([t \in Rng(PrefillLen) |->
                            Tab([h \in Rng(heads) |->
                                Tab([d \in Rng(MLAHidden) |-> Num(kn[t])])])])]),
                    k_pe |-> Tab([b \in Rng(1) |-> Tab([t \in Rng(PrefillLen) |->
                                Tab([d \in Rng(RopeDim) |-> Num(t)])])]),
                    v |-> Tab([b \in Rng(1) |-> Tab([t \in Rng(PrefillLen) |->
                            Tab([h \in Rng(heads) |->
                                Tab([c \in Rng(MLAHidden) |->
                                    Num(vv[t] + c + h)])])])]),
                    attn_bias |-> IF with_bias
                                  THEN Tab([b \in Rng(1) |->
                                          CausalBias(PrefillLen, PrefillLen)])
                                  ELSE None,
                    fused |-> fused,
                    scale |-> One]

\* _forward_prefill: attention over the zero-padded values, then the slice
ApplyForwardPrefill ==
    /\ fn = "none"
    /\ fn' = "_forward_prefill"
    /\ ret' = forward_prefill(args)
    /\ UNCHANGED <<args, prev, mark>>
    /\ UNCHANGED <<fwdvars, procvars>>

\* the same attention over the values as they are, v_head_dim wide
ApplyUnpadded ==
    /\ fn = "_forward_prefill"
    /\ fn' = "unpadded"
    /\ prev' = ret
    /\ ret' = prompt_attention_heads(args.q, ret.key, args.v, args.attn_bias,
                                     args.scale, args.fused)
    /\ UNCHANGED <<args, mark>>
    /\ UNCHANGED <<fwdvars, procvars>>

PrefillNext == ApplyForwardPrefill \/ ApplyUnpadded

SpecPrefill == PrefillInit /\ [][PrefillNext]_vars

\* C24: padding v with zeros up to the qk head dimension, attending, and
\* keeping the first v_head_dim components of each head gives what the
\* attention gives on the unpadded values; the components cut off are zero.
C24_PaddingIsTransparent ==
    fn = "unpadded" =>
        /\ prev.attn_output = ret
        /\ \A b \in DOMAIN prev.out : \A t \in DOMAIN prev.out[b] :
              \A h \in DOMAIN prev.out[b][t] :
                 /\ Size(prev.out[b][t][h]) = Size(args.q[b][t][h])
                 /\ \A c \in DOMAIN prev.out[b][t][h] :
                       c >= Size(args.v[b][t][h]) => prev.out[b][t][h][c] = Zero

\* two heads, values that differ between tokens and heads, a nonzero
\* output, and a token that attends to both positions
C24_Witness ==
    /\ fn = "unpadded"
    /\ Size(args.q[0][0]) = 2
    /\ args.v[0][0] # args.v[0][1]
    /\ ret[0][1][0] # ret[0][1][1]
    /\ \E c \in DOMAIN ret[0][1][0] : ret[0][1][0][c] \notin {Zero, args.v[0][1][0][c], args.v[0][0][0][c]}
    /\ Size(prev.out[0][1][0]) > Size(ret[0][1][0])

(***************************************************************************)
(* The LoRA mask: one class attribute, set and read by every caller.       *)
(*   x         (tokens, h_in); for the embedding (tokens, lora_rank)       *)
(*   wa_t_all  (max_loras, 1, lora_rank, h_in)                             *)
(*   wb_t_all  (max_loras, 1, h_out, lora_rank)                            *)
(*   mask      (tokens, max_loras * lora_rank)                             *)
(***************************************************************************)
MaxLoras == 2       \* LoRA slots stacked in wa_t_all / wb_t_all
LoraRank == 1       \* lora_rank

Callers == {"A", "B"}

\* the first mask set stays in place
setLoraMask_keep_first(mask) == IF lora_mask = None THEN mask ELSE lora_mask

\* LoraMask.setLoraMask(mask): the new value of LoraMask.lora_mask
setLoraMask(mask) == mask

\* LoraMask.getLoraMask()
getLoraMask == lora_mask

\* the shape of a two-dimensional tensor
shape(t) == <<Size(t), Size(t[0])>>

\* a * b, elementwise, for tensors of one shape
mul(a, b) ==
    Tab([t \in DOMAIN a |-> Tab([j \in DOMAIN a[t] |-> fmul(a[t][j], b[t][j])])])

\* y + out * scale, the value of y after `y += out * scale`
add_scaled(y, out, scale) ==
    Tab([t \in DOMAIN y |-> Tab([o \in DOMAIN y[t] |->
        fadd(y[t][o], fmul(out[t][o], scale))])])

\* wb_t_all[:, 0, :, :].transpose(1, 2) reshaped to
\* (max_loras * lora_rank, h_out)
wb_of(wb_t_all) ==
    Tab([j \in Rng(Size(wb_t_all) * LoraRank) |->
        Tab([o \in DOMAIN wb_t_all[0][0] |->
            wb_t_all[j \div LoraRank][0][o][j % LoraRank]])])

\* dispatch_bgmv_linear: the exception raised, or y after the call
dispatch_bgmv_linear(y, x, wa_t_all, wb_t_all, scale) ==
    LET mask == getLoraMask
        \* wa_t_all[:, 0, :, :] reshaped to (max_loras * lora_rank, h_in),
        \* transposed
        wa  == transpose(Tab([j \in Rng(Size(wa_t_all) * LoraRank) |->
                   wa_t_all[j \div LoraRank][0][j % LoraRank]]))
        wb  == wb_of(wb_t_all)
        out == matmul(x, wa)
    IN  IF mask = None
        THEN [status |-> "AttributeError", y |-> y]
        ELSE IF shape(out) # shape(mask)
        THEN [status |-> "AssertionError", y |-> y]
        ELSE [status |-> "ok",
              y |-> add_scaled(y, matmul(mul(out, mask), wb), scale)]

\* dispatch_bgmv_embedding: the exception raised, or y after the call; a
\* one-row mask is broadcast over the rows of x
dispatch_bgmv_embedding(y, x, wb_t_all, scale) ==
    LET max_loras == Size(wb_t_all)
        repeated  == Tab([t \in DOMAIN x |->
                        Tab([j \in Rng(max_loras * Size(x[t])) |->
                            x[t][j % Size(x[t])]])])
        mask      == getLoraMask
    IN  IF mask = None
        THEN [status |-> "TypeError", y |-> y]
        ELSE IF Size(mask[0]) # Size(repeated[0])
                \/ (Size(mask) # Size(repeated) /\ Size(mask) # 1)
        THEN [status |-> "RuntimeError", y |-> y]
        ELSE LET masked == Tab([t \in DOMAIN repeated |->
                              Tab([j \in DOMAIN repeated[t] |->
                                  fmul(repeated[t][j],
                                       mask[IF Size(mask) = 1 THEN 0 ELSE t][j])])])
             IN  [status |-> "ok",
                  y |-> add_scaled(y, matmul(masked, wb_of(wb_t_all)), scale)]

\* the stacked LoRA weights: every slot and every entry different
LoraA == Tab([l \in Rng(MaxLoras) |-> Tab([z \in Rng(1) |->
             Tab([r \in Rng(LoraRank) |-> Tab([i \in Rng(MLAHidden) |->
                 Num(1 + l + i)])])])])
LoraB == Tab([l \in Rng(MaxLoras) |-> Tab([z \in Rng(1) |->
             Tab([o \in Rng(MLAHidden) |-> Tab([r \in Rng(LoraRank) |->
                 Num(2 + 2 * l + o)])])])])

\* the mask of a batch: token t has the columns of LoRA slot sel[t] set,
\* none when sel[t] = -1
MaskOf(sel) ==
    Tab([t \in DOMAIN sel |-> Tab([j \in Rng(MaxLoras * LoraRank) |->
        IF j \div LoraRank = sel[t] THEN One ELSE Zero])])

LoraInit ==
    /\ FwdParked
    /\ environ = <<>> /\ vllm_config = <<>>
    /\ lora_mask = None
    /\ fn = "none"
    /\ ret = [c \in Callers |-> None]
    /\ prev = <<>>
    /\ mark = [c \in Callers |-> "start"]
    /\ \E n \in [Callers -> 1 .. MaxBatch] :
         \E selA \in [Rng(n["A"]) -> -1 .. MaxLoras - 1],
            selB \in [Rng(n["B"]) -> -1 .. MaxLoras - 1] :
            args = [c \in Callers |->
                     [x |-> Tab([t \in Rng(n[c]) |-> Tab([i \in Rng(MLAHidden) |->
                                Num(1 + t + i)])]),
                      x_embedding |-> Tab([t \in Rng(n[c]) |->
                                Tab([r \in Rng(LoraRank) |-> Num(1 + t)])]),
                      y |-> Tab([t \in Rng(n[c]) |-> Tab([o \in Rng(MLAHidden) |->
                                One])]),
                      mask |-> MaskOf(IF c = "A" THEN selA ELSE selB)]]

\* caller c: LoraMask.setLoraMask(mask)
SetLoraMask(c) ==
    /\ mark[c] = "start"
    /\ lora_mask' = setLoraMask(args[c].mask)
    /\ mark' = [mark EXCEPT ![c] = "set"]
    /\ fn' = "setLoraMask"
    /\ prev' = Append(prev, [caller |-> c, op |-> "setLoraMask"])
    /\ UNCHANGED <<args, ret, environ, vllm_config>>
    /\ UNCHANGED fwdvars

\* caller c: dispatch_bgmv_linear(y, x, wa_t_all, wb_t_all, indices, 0, 1.0)
DispatchLinear(c) ==
    /\ mark[c] \in {"start", "set"}
    /\ ret' = [ret EXCEPT ![c] =
                 dispatch_bgmv_linear(args[c].y, args[c].x, LoraA, LoraB, One)]
    /\ mark' = [mark EXCEPT ![c] = "done"]
    /\ fn' = "dispatch_bgmv_linear"
    /\ prev' = Append(prev, [caller |-> c, op |-> "dispatch"])
    /\ UNCHANGED <<args, procvars>>
    /\ UNCHANGED fwdvars

\* caller c: dispatch_bgmv_embedding(y, x, wb_t_all, indices, 0, 1.0)
DispatchEmbedding(c) ==
    /\ mark[c] \in {"start", "set"}
    /\ ret' = [ret EXCEPT ![c] =
                 dispatch_bgmv_embedding(args[c].y, args[c].x_embedding, LoraB, One)]
    /\ mark' = [mark EXCEPT ![c] = "done"]
    /\ fn' = "dispatch_bgmv_embedding"
    /\ prev' = Append(prev, [caller |-> c, op |-> "dispatch"])
    /\ UNCHANGED <<args, procvars>>
    /\ UNCHANGED fwdvars

LoraNext ==
    \E c \in Callers : SetLoraMask(c) \/ DispatchLinear(c) \/ DispatchEmbedding(c)

SpecLora == LoraInit /\ [][LoraNext]_vars

\* the caller whose setLoraMask came last in the history h, "nobody" when
\* no mask was ever set
LastSetter(h) ==
    IF \A i \in DOMAIN h : h[i].op # "setLoraMask" THEN "nobody"
    ELSE LET i == CHOOSE i \in DOMAIN h :
                    /\ h[i].op = "setLoraMask"
                    /\ \A j \in DOMAIN h : j > i => h[j].op # "setLoraMask"
         IN  h[i].caller

\* x @ wa, masked by m and taken through wb, added to y: worked out entry by
\* entry
MaskedLinear(a, m) ==
    Tab([t \in DOMAIN a.y |-> Tab([o \in DOMAIN a.y[t] |->
        fadd(a.y[t][o],
             SumTo([j \in Rng(MaxLoras * LoraRank) |->
                 fmul(fmul(SumTo([i \in DOMAIN a.x[t] |->
                                fmul(a.x[t][i],
                                     LoraA[j \div LoraRank][0][j % LoraRank][i])],
                                Size(a.x[t])),
                           m[t][j]),
                      LoraB[j \div LoraRank][0][o][j % LoraRank])],
                 MaxLoras * LoraRank))])])

\* x repeated max_loras times, masked by m and taken through wb, added to
\* y: worked out entry by entry
MaskedEmbedding(a, m) ==
    Tab([t \in DOMAIN a.y |-> Tab([o \in DOMAIN a.y[t] |->
        fadd(a.y[t][o],
             SumTo([j \in Rng(MaxLoras * LoraRank) |->
                 fmul(fmul(a.x_embedding[t][j % LoraRank], m[t][j]),
                      LoraB[j \div LoraRank][0][o][j % LoraRank])],
                 MaxLoras * LoraRank))])])

\* C25: the LoRA mask is one process-wide slot.  A dispatch uses the mask
\* that was set last, whoever set it: after caller A sets its mask and
\* caller B sets another, A's dispatch is computed with B's mask.  A
\* dispatch with no mask ever set raises and leaves y as it was.
C25_LastMaskWins ==
    fn \in {"dispatch_bgmv_linear", "dispatch_bgmv_embedding"} =>
        LET c == prev[Len(prev)].caller
            setter == LastSetter(prev)
        IN  /\ setter = "nobody" =>
                 /\ ret[c].status \in {"AttributeError", "TypeError"}
                 /\ ret[c].y = args[c].y
            /\ (/\ setter # "nobody"
                /\ fn = "dispatch_bgmv_linear"
                /\ Size(args[setter].mask) = Size(args[c].x)) =>
                 /\ ret[c].status = "ok"
                 /\ ret[c].y = MaskedLinear(args[c], args[setter].mask)
            /\ (/\ setter # "nobody"
                /\ fn = "dispatch_bgmv_embedding"
                /\ Size(args[setter].mask) = Size(args[c].x)) =>
                 /\ ret[c].status = "ok"
                 /\ ret[c].y = MaskedEmbedding(args[c], args[setter].mask)

\* A set its mask, B set another, A dispatched: the result is the one of
\* B's mask and differs from the one of A's own mask
C25_Witness ==
    /\ fn = "dispatch_bgmv_linear"
    /\ Len(prev) = 3
    /\ prev[1] = [caller |-> "A", op |-> "setLoraMask"]
    /\ prev[2] = [caller |-> "B", op |-> "setLoraMask"]
    /\ prev[3].caller = "A"
    /\ ret["A"].status = "ok"
    /\ ret["A"].y = MaskedLinear(args["A"], args["B"].mask)
    /\ ret["A"].y # MaskedLinear(args["A"], args["A"].mask)

(***************************************************************************)
(* Two decode calls on one cache, taken in both orders.  Each call is one  *)
(* sequence: it stores its key and value row at (blk, off) and attends     *)
(* over its block list, which ends with blk and may start with one full    *)
(* context block.                                                          *)
(***************************************************************************)
CallNames == {"P", "Q"}
Orders    == {<<"P", "Q">>, <<"Q", "P">>}

\* the decode call with the attention ahead of the cache writes
forward_decode_attend_before_store(c, cache) ==
    [kv_cache |->
        [k |-> cache_write(c.key, cache.k, c.attn_metadata.block_indices,
                           c.attn_metadata.block_offsets, [i \in {0} |-> 0]),
         v |-> cache_write(c.value, cache.v, c.attn_metadata.block_indices,
                           c.attn_metadata.block_offsets, [i \in {0} |-> 0])],
     output |-> flat_pa(c.query, cache.k, cache.v, c.attn_metadata.block_list,
                        c.attn_metadata.block_mapping, c.attn_metadata.attn_bias,
                        One)]

\* HPUAttentionImpl.forward of a DECODER layer on a decode batch with a
\* cache: the rows are stored, then the decode attention runs over the
\* cache as it is after the writes
forward_decode(c, cache) ==
    LET md == c.attn_metadata
        written == [k |-> cache_write(c.key, cache.k, md.block_indices,
                                      md.block_offsets, [i \in {0} |-> 0]),
                    v |-> cache_write(c.value, cache.v, md.block_indices,
                                      md.block_offsets, [i \in {0} |-> 0])]
    IN  [kv_cache |-> written,
         output |-> flat_pa(c.query, written.k, written.v, md.block_list,
                            md.block_mapping, md.attn_bias, One)]

\* the decode call of one sequence writing token `tok` at (blk, off), with
\* context block ctx in front when ctx is a block
DecodeCall(tok, blk, off, ctx) ==
    [query |-> Tab([e \in Rng(1) |-> HeadRow(1)]),
     key   |-> Tab([e \in Rng(1) |-> HeadRow(tok)]),
     value |-> Tab([e \in Rng(1) |-> HeadRow(0 - 3 * tok)]),
     attn_metadata |->
        [is_prompt |-> FALSE,
         block_indices |-> Tab([e \in Rng(1) |-> blk]),
         block_offsets |-> Tab([e \in Rng(1) |-> off]),
         block_list    |-> IF ctx \in Rng(NumBlocks)
                           THEN Tab([i \in Rng(2) |-> IF i = 0 THEN ctx ELSE blk])
                           ELSE Tab([i \in Rng(1) |-> blk]),
         block_mapping |-> IF ctx \in Rng(NumBlocks)
                           THEN OneHot([i \in Rng(2) |-> 0], 1)
                           ELSE OneHot([i \in Rng(1) |-> 0], 1),
         attn_bias     |-> IF ctx \in Rng(NumBlocks)
                           THEN Tab([i \in Rng(2) |->
                                   IF i = 0 THEN UsageBias(BlockSize)
                                   ELSE UsageBias(off + 1)])
                           ELSE Tab([i \in Rng(1) |-> UsageBias(off + 1)])]]

OrderInit ==
    /\ FwdParked
    /\ ProcParked
    /\ fn = "none"
    /\ prev = <<>>
    /\ mark = <<>>
    /\ \E lv \in [Rng(NumBlocks) -> 0 .. MaxVal] :
         ret = [o \in Orders |->
                 [kv_cache |->
                     [k |-> Tab([blk \in Rng(NumBlocks) |-> Tab([s \in Rng(BlockSize) |->
                                HeadRow(lv[blk])])]),
                      v |-> Tab([blk \in Rng(NumBlocks) |-> Tab([s \in Rng(BlockSize) |->
                                HeadRow(1 + blk * BlockSize + s)])])],
                  done |-> 0,
                  output |-> [c \in CallNames |-> None]]]
    /\ \E bP, bQ \in Rng(NumBlocks), oP, oQ \in Rng(BlockSize),
          cP, cQ \in Rng(NumBlocks + 1) :
         /\ cP # bP /\ cQ # bQ
         /\ args = [P |-> DecodeCall(1, bP, oP, cP), Q |-> DecodeCall(2, bQ, oQ, cQ)]

\* the next call of order o runs on the cache of that order
Call(o) ==
    /\ ret[o].done < Len(o)
    /\ LET c == o[ret[o].done + 1]
           r == forward_decode(args[c], ret[o].kv_cache)
       IN  /\ ret' = [ret EXCEPT ![o] =
                        [kv_cache |-> r.kv_cache,
                         done |-> @.done + 1,
                         output |-> [@.output EXCEPT ![c] = r.output]]]
           /\ fn' = c
    /\ UNCHANGED <<args, prev, mark>>
    /\ UNCHANGED <<fwdvars, procvars>>

OrderNext == \E o \in Orders : Call(o)

SpecOrder == OrderInit /\ [][OrderNext]_vars

PQ == <<"P", "Q">>
QP == <<"Q", "P">>
BothOrdersDone == ret[PQ].done = 2 /\ ret[QP].done = 2

\* the slots a call writes and the cache blocks it reads
WriteSlots(c) ==
    {<<c.attn_metadata.block_indices[i], c.attn_metadata.block_offsets[i]>> :
        i \in DOMAIN c.attn_metadata.block_indices}
ReadBlocks(c) ==
    {c.attn_metadata.block_list[i] : i \in DOMAIN c.attn_metadata.block_list}

\* call w writes into a block that call r reads
WritesIntoRead(w, r) == \E sl \in WriteSlots(w) : sl[1] \in ReadBlocks(r)

\* call w writes a slot that r reads with its bias open, other than the
\* slot r writes itself
WritesUnmaskedRead(w, r) ==
    \E sl \in WriteSlots(w) \ WriteSlots(r) :
        \E i \in DOMAIN r.attn_metadata.block_list :
            /\ r.attn_metadata.block_list[i] = sl[1]
            /\ r.attn_metadata.attn_bias[i][sl[2]] = Zero

\* the two orders agree on the final cache and on both outputs
OrdersAgree ==
    /\ ret[PQ].kv_cache = ret[QP].kv_cache
    /\ ret[PQ].output = ret[QP].output

Some(x) == <<x>>

\* os.getenv(key, default) and os.environ.get(key, default)
getenv(env, key, default) == IF key \in DOMAIN env THEN env[key] ELSE default

\* int(s) for the strings of the analysis: the number, or ValueError for a
\* string that is no numeral
int(s) ==
    IF s \in {"0", "1", "2"}
    THEN [status |-> "ok", value |-> CASE s = "0" -> 0 [] s = "1" -> 1 [] s = "2" -> 2]
    ELSE [status |-> "ValueError", value |-> 0]

\* bool(int(s)), shown as Python prints it
bool_int(s) ==
    IF int(s).status # "ok" THEN [status |-> "ValueError", value |-> ""]
    ELSE [status |-> "ok", value |-> IF int(s).value # 0 THEN "True" ELSE "False"]

\* the names of environment_variables that the HPU code reads
environment_variables ==
    {"VLLM_WORKER_MULTIPROC_METHOD", "VLLM_USE_V1",
     "VLLM_MLA_PERFORM_MATRIX_ABSORPTION"}

\* the module attribute as evaluated once, in the environment of the import
envs_getattr_at_import(name, env) ==
    IF name \notin environment_variables
    THEN [status |-> "AttributeError", value |-> ""]
    ELSE IF name = "VLLM_WORKER_MULTIPROC_METHOD"
    THEN [status |-> "ok", value |-> getenv(prev, name, "fork")]
    ELSE IF name = "VLLM_USE_V1"
    THEN bool_int(getenv(prev, name, "0"))
    ELSE bool_int(getenv(prev, name, "1"))

\* envs.__getattr__(name): the lambda of environment_variables[name] is
\* called at the access, on the environment env of that moment
envs_getattr(name, env) ==
    IF name \notin environment_variables
    THEN [status |-> "AttributeError", value |-> ""]
    ELSE IF name = "VLLM_WORKER_MULTIPROC_METHOD"
    THEN [status |-> "ok", value |-> getenv(env, name, "fork")]
    ELSE IF name = "VLLM_USE_V1"
    THEN bool_int(getenv(env, name, "0"))
    ELSE bool_int(getenv(env, name, "1"))

MultiStepHPUWorker == "vllm.worker.multi_step_hpu_worker.MultiStepHPUWorker"
V1HPUWorker        == "vllm.v1.worker.hpu_worker.HPUWorker"
HPUWorker          == "vllm.worker.hpu_worker.HPUWorker"
create_spec_worker == "vllm.spec_decode.spec_decode_worker.create_spec_worker"

\* the worker selection wrapping the worker class whenever a speculative
\* config is present
update_worker_cls_wrap_always(cfg, env) ==
    IF cfg.speculative_config # None
    THEN [status |-> "ok",
          vllm_config |-> [cfg EXCEPT
              !.parallel_config.sd_worker_cls = cfg.parallel_config.worker_cls,
              !.parallel_config.worker_cls = create_spec_worker]]
    ELSE [status |-> "ok",
          vllm_config |-> [cfg EXCEPT !.parallel_config.worker_cls =
                              IF @ = "auto" THEN HPUWorker ELSE @]]

\* the worker selection without the unconditional multi-step assignment
update_worker_cls_auto_only(cfg, env) ==
    IF cfg.parallel_config.worker_cls # "auto"
    THEN [status |-> "ok", vllm_config |-> cfg]
    ELSE LET use_v1 == envs_getattr("VLLM_USE_V1", env) IN
         IF use_v1.status # "ok"
         THEN [status |-> use_v1.status, vllm_config |-> cfg]
         ELSE IF use_v1.value = "True"
         THEN [status |-> "ok",
               vllm_config |-> [cfg EXCEPT !.parallel_config.worker_cls = V1HPUWorker]]
         ELSE IF cfg.scheduler_config.is_multi_step
         THEN [status |-> "ok",
               vllm_config |-> [cfg EXCEPT
                   !.parallel_config.worker_cls = MultiStepHPUWorker]]
         ELSE IF cfg.speculative_config # None
         THEN [status |-> "ok",
               vllm_config |-> [cfg EXCEPT
                   !.parallel_config.worker_cls = create_spec_worker,
                   !.parallel_config.sd_worker_cls = HPUWorker]]
         ELSE [status |-> "ok",
               vllm_config |-> [cfg EXCEPT !.parallel_config.worker_cls = HPUWorker]]

\* check_and_update_config, worker selection: the multi-step assignment,
\* then the branches of `if parallel_config.worker_cls == "auto"`
update_worker_cls(cfg, env) ==
    LET stepped == IF cfg.scheduler_config.is_multi_step
                   THEN [cfg EXCEPT !.parallel_config.worker_cls = MultiStepHPUWorker]
                   ELSE cfg
    IN  IF stepped.parallel_config.worker_cls # "auto"
        THEN [status |-> "ok", vllm_config |-> stepped]
        ELSE LET use_v1 == envs_getattr("VLLM_USE_V1", env) IN
             IF use_v1.status # "ok"
             THEN [status |-> use_v1.status, vllm_config |-> stepped]
             ELSE IF use_v1.value = "True"
             THEN [status |-> "ok",
                   vllm_config |-> [stepped EXCEPT
                       !.parallel_config.worker_cls = V1HPUWorker]]
             ELSE IF stepped.scheduler_config.is_multi_step
             THEN [status |-> "ok",
                   vllm_config |-> [stepped EXCEPT
                       !.parallel_config.worker_cls = MultiStepHPUWorker]]
             ELSE IF stepped.speculative_config # None
             THEN [status |-> "ok",
                   vllm_config |-> [stepped EXCEPT
                       !.parallel_config.worker_cls = create_spec_worker,
                       !.parallel_config.sd_worker_cls = HPUWorker]]
             ELSE [status |-> "ok",
                   vllm_config |-> [stepped EXCEPT
                       !.parallel_config.worker_cls = HPUWorker]]

\* the default block size for Gaudi
DefaultBlockSize == 128

\* check_and_update_config, block size
update_block_size(cfg) ==
    IF cfg.cache_config # None /\ cfg.cache_config.block_size = None
    THEN [cfg EXCEPT !.cache_config.block_size = Some(DefaultBlockSize)]
    ELSE cfg

\* the multiprocessing method set to 'spawn' whenever the effective method
\* is 'fork'
update_multiproc_method_always_spawn(cfg, env) ==
    IF /\ cfg.parallel_config.distributed_executor_backend = "mp"
       /\ envs_getattr("VLLM_WORKER_MULTIPROC_METHOD", env).value = "fork"
    THEN [x \in DOMAIN env \cup {"VLLM_WORKER_MULTIPROC_METHOD"} |->
             IF x = "VLLM_WORKER_MULTIPROC_METHOD" THEN "spawn" ELSE env[x]]
    ELSE env

\* check_and_update_config, multiprocessing method: os.environ after the
\* lines
update_multiproc_method(cfg, env) ==
    IF /\ cfg.parallel_config.distributed_executor_backend = "mp"
       /\ envs_getattr("VLLM_WORKER_MULTIPROC_METHOD", env).value = "fork"
    THEN IF "VLLM_WORKER_MULTIPROC_METHOD" \in DOMAIN env
         THEN env
         ELSE [x \in DOMAIN env \cup {"VLLM_WORKER_MULTIPROC_METHOD"} |->
                  IF x = "VLLM_WORKER_MULTIPROC_METHOD" THEN "spawn" ELSE env[x]]
    ELSE env

\* check_and_update_config, latent attention: chunked prefill off and the
\* batched-token limit raised to the model length
update_mla(cfg) ==
    IF cfg.model_config # None /\ cfg.model_config.use_mla
    THEN [cfg EXCEPT
            !.scheduler_config.enable_chunked_prefill = FALSE,
            !.scheduler_config.chunked_prefill_enabled = FALSE,
            !.scheduler_config.max_num_batched_tokens =
                IF cfg.scheduler_config.max_model_len
                      >= cfg.DEFAULT_MAX_NUM_BATCHED_TOKENS
                THEN cfg.scheduler_config.max_model_len
                ELSE cfg.DEFAULT_MAX_NUM_BATCHED_TOKENS]
    ELSE cfg

\* HpuPlatform.check_and_update_config(vllm_config) in the environment env:
\* how it ends, the config and the environment it leaves
check_and_update_config(cfg, env) ==
    LET w == update_worker_cls(cfg, env) IN
    IF w.status # "ok"
    THEN [status |-> w.status, vllm_config |-> w.vllm_config, environ |-> env]
    ELSE LET sized == update_block_size(w.vllm_config) IN
         [status |-> "ok",
          vllm_config |-> update_mla(sized),
          environ |-> update_multiproc_method(sized, env)]

MaxApply    == 2    \* calls of check_and_update_config in a behaviour
MaxModelLen == 3    \* max_model_len and DEFAULT_MAX_NUM_BATCHED_TOKENS up to this

\* the strings a variable is set to in the analysis
EnvValues ==
    [VLLM_WORKER_MULTIPROC_METHOD |-> {"fork", "spawn"},
     VLLM_USE_V1 |-> {"0", "1", "x"},
     VLLM_MLA_PERFORM_MATRIX_ABSORPTION |-> {"0", "1", "x"}]

\* the environments of the analysis: each variable unset or set to one of
\* its strings
Environs(names) ==
    UNION {{e \in [S -> UNION {EnvValues[x] : x \in S}] :
                \A x \in S : e[x] \in EnvValues[x]} : S \in SUBSET names}

ConfigInit ==
    /\ FwdParked
    /\ lora_mask = <<>>
    /\ fn = "none"
    /\ ret = <<>>
    /\ prev = <<>>
    /\ mark = 0
    /\ args = <<>>
    /\ environ \in Environs({"VLLM_WORKER_MULTIPROC_METHOD", "VLLM_USE_V1"})
    /\ \E is_multi_step \in BOOLEAN, chunked \in BOOLEAN, use_mla \in BOOLEAN,
          has_model \in BOOLEAN,
          worker_cls \in {"auto", "my_pkg.MyWorker"},
          backend \in {"mp", "ray"},
          speculative_config \in {None, [method |-> "draft"]},
          cache_config \in {None, [block_size |-> None], [block_size |-> Some(16)]},
          max_model_len \in {1, MaxModelLen} :
         /\ ~has_model => ~use_mla
         /\ vllm_config =
              [scheduler_config |->
                  [is_multi_step |-> is_multi_step,
                   enable_chunked_prefill |-> chunked,
                   chunked_prefill_enabled |-> chunked,
                   max_num_batched_tokens |-> 1,
                   max_model_len |-> max_model_len],
               parallel_config |->
                  [worker_cls |-> worker_cls,
                   sd_worker_cls |-> "auto",
                   distributed_executor_backend |-> backend],
               speculative_config |-> speculative_config,
               cache_config |-> cache_config,
               model_config |-> IF has_model THEN [use_mla |-> use_mla] ELSE None,
               \* vllm.utils.DEFAULT_MAX_NUM_BATCHED_TOKENS, on the scale
               \* of max_model_len: one drawn length below it, one above
               DEFAULT_MAX_NUM_BATCHED_TOKENS |-> 2]

\* HpuPlatform.check_and_update_config(vllm_config); prev keeps the config
\* and the environment the call found
CheckAndUpdateConfig ==
    /\ mark < MaxApply
    /\ LET r == check_and_update_config(vllm_config, environ) IN
       /\ vllm_config' = r.vllm_config
       /\ environ' = r.environ
       /\ ret' = r.status
    /\ prev' = [vllm_config |-> vllm_config, environ |-> environ]
    /\ mark' = mark + 1
    /\ fn' = "check_and_update_config"
    /\ UNCHANGED <<args, lora_mask>>
    /\ UNCHANGED fwdvars

ConfigNext == CheckAndUpdateConfig

SpecConfig == ConfigInit /\ [][ConfigNext]_vars

\* a call of check_and_update_config has returned
Returned == fn = "check_and_update_config" /\ ret = "ok"

\* C27: after check_and_update_config returns, worker_cls is never 'auto':
\* a multi-step scheduler gives MultiStepHPUWorker; otherwise 'auto' becomes
\* the V1 HPUWorker when VLLM_USE_V1 is on, else create_spec_worker (with
\* sd_worker_cls the HPU worker) when a speculative config is present, else
\* the HPU worker; another worker_cls is left as it was.
C27_WorkerClsResolved ==
    Returned =>
        LET was == prev.vllm_config
            now == vllm_config.parallel_config
        IN  /\ now.worker_cls # "auto"
            /\ was.scheduler_config.is_multi_step =>
                  now.worker_cls = MultiStepHPUWorker
            /\ (~was.scheduler_config.is_multi_step
                /\ was.parallel_config.worker_cls = "auto") =>
                  IF getenv(prev.environ, "VLLM_USE_V1", "0") \in {"1", "2"}
                  THEN now.worker_cls = V1HPUWorker
                  ELSE IF was.speculative_config # None
                  THEN /\ now.worker_cls = create_spec_worker
                       /\ now.sd_worker_cls = HPUWorker
                  ELSE now.worker_cls = HPUWorker
            /\ (~was.scheduler_config.is_multi_step
                /\ was.parallel_config.worker_cls # "auto") =>
                  now.worker_cls = was.parallel_config.worker_cls

\* a multi-step scheduler met a worker_cls that was not 'auto', with
\* VLLM_USE_V1 on
C27_Witness ==
    /\ Returned /\ mark = 1
    /\ prev.vllm_config.scheduler_config.is_multi_step
    /\ prev.vllm_config.parallel_config.worker_cls = "my_pkg.MyWorker"
    /\ getenv(prev.environ, "VLLM_USE_V1", "0") = "1"
    /\ vllm_config.parallel_config.worker_cls = MultiStepHPUWorker

\* C28: with the 'mp' executor backend and the effective multiprocessing
\* method 'fork', the call sets VLLM_WORKER_MULTIPROC_METHOD to 'spawn'
\* when it was not set and leaves it 'fork' when it was set to 'fork'; in
\* every other case the variable is as before; no other variable changes.
C28_SpawnOnlyWhenUnset ==
    fn = "check_and_update_config" =>
        LET mp    == prev.vllm_config.parallel_config.distributed_executor_backend = "mp"
            name  == "VLLM_WORKER_MULTIPROC_METHOD"
            unset == name \notin DOMAIN prev.environ
        IN  /\ (Returned /\ mp /\ unset) =>
                  (name \in DOMAIN environ /\ environ[name] = "spawn")
            /\ (Returned /\ mp /\ ~unset /\ prev.environ[name] = "fork") =>
                  (name \in DOMAIN environ /\ environ[name] = "fork")
            /\ ~(Returned /\ mp /\ unset) =>
                  (name \in DOMAIN environ <=> name \in DOMAIN prev.environ)
            /\ \A x \in DOMAIN prev.environ :
                  x \in DOMAIN environ /\ (x # name => environ[x] = prev.environ[x])
            /\ \A x \in DOMAIN environ :
                  x \in DOMAIN prev.environ => environ[x] = prev.environ[x]
            /\ DOMAIN environ \subseteq DOMAIN prev.environ \cup {name}

\* the call found the 'mp' backend and the variable set to 'fork', and left
\* it so
C28_Witness ==
    /\ Returned /\ mark = 1
    /\ prev.vllm_config.parallel_config.distributed_executor_backend = "mp"
    /\ "VLLM_WORKER_MULTIPROC_METHOD" \in DOMAIN prev.environ
    /\ prev.environ["VLLM_WORKER_MULTIPROC_METHOD"] = "fork"
    /\ environ = prev.environ

\* C29: check_and_update_config is idempotent: the second call leaves
\* worker_cls, sd_worker_cls, block_size, the chunked-prefill flags,
\* max_num_batched_tokens and VLLM_WORKER_MULTIPROC_METHOD as the first
\* call left them.
C29_Idempotent ==
    (fn = "check_and_update_config" /\ mark = 2) =>
        /\ vllm_config = prev.vllm_config
        /\ environ = prev.environ

\* the second call came after a first one that had resolved 'auto', filled
\* in the block size, switched chunked prefill off and set 'spawn'
C29_Witness ==
    /\ Returned /\ mark = 2
    /\ vllm_config.parallel_config.worker_cls = create_spec_worker
    /\ vllm_config.parallel_config.sd_worker_cls = HPUWorker
    /\ vllm_config.cache_config # None
    /\ vllm_config.cache_config.block_size = Some(DefaultBlockSize)
    /\ vllm_config.model_config # None
    /\ vllm_config.model_config.use_mla
    /\ vllm_config.scheduler_config.max_num_batched_tokens = MaxModelLen
    /\ environ = [x \in {"VLLM_WORKER_MULTIPROC_METHOD"} |-> "spawn"]

(***************************************************************************)
(* Reads of envs attributes while the process environment changes.  prev   *)
(* keeps the environment found at the import of envs, args the operation   *)
(* that changed the environment last.                                      *)
(***************************************************************************)
EnvsInit ==
    /\ FwdParked
    /\ lora_mask = <<>>
    /\ fn = "import"
    /\ ret = <<>>
    /\ mark = ""
    /\ args = "import"
    /\ environ \in Environs(environment_variables)
    /\ prev = environ
    /\ \E backend \in {"mp", "ray"} :
         vllm_config =
            [scheduler_config |->
                [is_multi_step |-> FALSE,
                 enable_chunked_prefill |-> TRUE,
                 chunked_prefill_enabled |-> TRUE,
                 max_num_batched_tokens |-> 1,
                 max_model_len |-> 1],
             parallel_config |->
                [worker_cls |-> "my_pkg.MyWorker",
                 sd_worker_cls |-> "auto",
                 distributed_executor_backend |-> backend],
             speculative_config |-> None,
             cache_config |-> None,
             model_config |-> None,
             DEFAULT_MAX_NUM_BATCHED_TOKENS |-> 2]

\* envs.<name>: the attribute is not a module global, so __getattr__(name)
\* answers
Getattr(name) ==
    /\ ret' = envs_getattr(name, environ)
    /\ mark' = name
    /\ fn' = "__getattr__"
    /\ UNCHANGED <<args, prev, procvars>>
    /\ UNCHANGED fwdvars

\* os.environ[name] = value
Putenv(name, value) ==
    /\ getenv(environ, name, "") # value
    /\ environ' = [x \in DOMAIN environ \cup {name} |->
                      IF x = name THEN value ELSE environ[x]]
    /\ fn' = "putenv"
    /\ args' = "putenv"
    /\ UNCHANGED <<ret, mark, prev, lora_mask, vllm_config>>
    /\ UNCHANGED fwdvars

\* del os.environ[name]
Unsetenv(name) ==
    /\ name \in DOMAIN environ
    /\ environ' = [x \in DOMAIN environ \ {name} |-> environ[x]]
    /\ fn' = "unsetenv"
    /\ args' = "unsetenv"
    /\ UNCHANGED <<ret, mark, prev, lora_mask, vllm_config>>
    /\ UNCHANGED fwdvars

\* HpuPlatform.check_and_update_config(vllm_config), seen from the readers
\* of envs
PlatformUpdate ==
    /\ LET r == check_and_update_config(vllm_config, environ) IN
       /\ vllm_config' = r.vllm_config
       /\ environ' = r.environ
       /\ args' = IF r.environ # environ THEN "check_and_update_config" ELSE args
    /\ fn' = "check_and_update_config"
    /\ UNCHANGED <<ret, mark, prev, lora_mask>>
    /\ UNCHANGED fwdvars

EnvsNext ==
    \/ \E name \in environment_variables \cup {"VLLM_NO_SUCH_VARIABLE"} :
          Getattr(name)
    \/ \E name \in environment_variables : \E value \in EnvValues[name] :
          Putenv(name, value)
    \/ \E name \in environment_variables : Unsetenv(name)
    \/ PlatformUpdate

SpecEnvs == EnvsInit /\ [][EnvsNext]_vars

\* C30: a read of an envs attribute evaluates the variable in the
\* environment as it is at the access: the value set now, whatever it was
\* at import, the default when the variable is unset; a name that is not in
\* environment_variables raises AttributeError.
C30_ReadSeesCurrentEnviron ==
    fn = "__getattr__" =>
        IF mark \notin environment_variables
        THEN ret.status = "AttributeError"
        ELSE LET set == mark \in DOMAIN environ IN
             CASE mark = "VLLM_WORKER_MULTIPROC_METHOD" ->
                    /\ ret.status = "ok"
                    /\ ret.value = IF set THEN environ[mark] ELSE "fork"
               [] mark = "VLLM_USE_V1" ->
                    /\ ~set => ret = [status |-> "ok", value |-> "False"]
                    /\ (set /\ environ[mark] = "0") =>
                          ret = [status |-> "ok", value |-> "False"]
                    /\ (set /\ environ[mark] = "1") =>
                          ret = [status |-> "ok", value |-> "True"]
                    /\ (set /\ environ[mark] = "x") => ret.status = "ValueError"
               [] mark = "VLLM_MLA_PERFORM_MATRIX_ABSORPTION" ->
                    /\ ~set => ret = [status |-> "ok", value |-> "True"]
                    /\ (set /\ environ[mark] = "0") =>
                          ret = [status |-> "ok", value |-> "False"]
                    /\ (set /\ environ[mark] = "1") =>
                          ret = [status |-> "ok", value |-> "True"]
                    /\ (set /\ environ[mark] = "x") => ret.status = "ValueError"

\* VLLM_WORKER_MULTIPROC_METHOD was unset at import, check_and_update_config
\* set it, and the read that followed returned 'spawn'
C30_Witness ==
    /\ fn = "__getattr__"
    /\ mark = "VLLM_WORKER_MULTIPROC_METHOD"
    /\ mark \notin DOMAIN prev
    /\ args = "check_and_update_config"
    /\ ret = [status |-> "ok", value |-> "spawn"]

====
